---------------------------- MODULE Spec2Model ----------------------------
(***************************************************************************)
(* Model of the chronic-disease care planner backend: the metric           *)
(* classifier (guidelines.py), the trend estimator (trend_analyzer.py),    *)
(* the weekly aggregator and the food analysis fallback (ai_analyzer.py),  *)
(* and the HTTP handlers and log store they run on (main.py, database.py). *)
(*                                                                         *)
(* Python floats are modelled as exact rationals [num, den] with den > 0.  *)
(***************************************************************************)
EXTENDS Integers, Sequences, FiniteSets, TLC

VARIABLES
    today,              \* the calendar date of "now" (date('now') / CURRENT_DATE)
    daily_logs,         \* table daily_logs, rows in insertion (logged_at) order
    medications,        \* table medications: id -> "absent" | "active" | "inactive"
    medication_logs,    \* table medication_logs, rows in insertion order
    strava_activities,  \* table strava_activities, rows in insertion order
    hba1c_logs,         \* table hba1c_logs, rows in insertion order
    pc,                 \* "idle", or "call" / "return" around a call of a core function
    request,            \* the call or HTTP request being served
    response            \* what it returned

vars == <<today, daily_logs, medications, medication_logs, strava_activities,
          hba1c_logs, pc, request, response>>

store == <<today, daily_logs, medications, medication_logs, strava_activities,
          hba1c_logs>>

\* ------------------------------------------------------------------------
\* Bounds of the model
\* ------------------------------------------------------------------------

MaxLen == 6         \* longest sequence of readings handed to the core functions
MaxMeals == 23      \* most food logs handed to calculate_diet_quality
MaxActivityLogs == 2 \* most activity logs handed to the exercise score
MaxMeds == 2        \* most active medications
MaxMedLogs == 8     \* most medication logs handed to calculate_medication_adherence
MaxRows == 2        \* most rows the tables of the store hold together
MaxDay == 1         \* last calendar day of the application
MaxWindowDay == 9   \* last calendar day of the trend reports after daily readings

\* ------------------------------------------------------------------------
\* Python numbers
\* ------------------------------------------------------------------------

Frac(n, d) == [num |-> n, den |-> d]

FracOfInt(n) == Frac(n, 1)

\* a / b on floats, b /= 0
FracDiv(a, b) ==
    IF b.num > 0 THEN Frac(a.num * b.den, a.den * b.num)
                 ELSE Frac(-(a.num * b.den), a.den * (-b.num))

FracMul(a, b) == Frac(a.num * b.num, a.den * b.den)

FracAdd(a, b) == Frac(a.num * b.den + b.num * a.den, a.den * b.den)

FracSub(a, b) == Frac(a.num * b.den - b.num * a.den, a.den * b.den)

FracLT(a, b) == a.num * b.den < b.num * a.den

FracLE(a, b) == a.num * b.den <= b.num * a.den

FracGT(a, b) == FracLT(b, a)

FracGE(a, b) == FracLE(b, a)

FracEQ(a, b) == a.num * b.den = b.num * a.den

\* min(a, b)
FracMin(a, b) == IF FracLT(b, a) THEN b ELSE a

\* round(x, 0): to the nearest integer, ties to the even one
Round0(x) ==
    LET q == x.num \div x.den
        r == x.num % x.den
    IN  IF 2 * r < x.den THEN q
        ELSE IF 2 * r > x.den THEN q + 1
        ELSE IF q % 2 = 0 THEN q ELSE q + 1

RECURSIVE sum(_)
\* sum(values)
sum(values) ==
    IF values = <<>> THEN 0 ELSE Head(values) + sum(Tail(values))

\* values[lo:hi] with Python's 0-based, half-open slice bounds
Slice(values, lo, hi) == SubSeq(values, lo + 1, hi)

\* [f(x) for x in values]
Column(rows, field) == [i \in 1..Len(rows) |-> rows[i][field]]

\* ------------------------------------------------------------------------
\* guidelines.py: threshold tables and the metric classifier
\* ------------------------------------------------------------------------

DIABETES_GUIDELINES ==
    [glucose_targets |->
        [fasting      |-> [min |-> 80, max |-> 130],
         postprandial |-> [max |-> 180]]]

HYPERTENSION_GUIDELINES ==
    [bp_categories |->
        [normal              |-> [description |-> "Normal blood pressure",
                                  action |-> "Maintain healthy lifestyle"],
         elevated            |-> [description |-> "Elevated blood pressure",
                                  action |-> "Lifestyle modifications, reassess in 3-6 months"],
         stage1_hypertension |-> [description |-> "Stage 1 Hypertension",
                                  action |-> "Lifestyle modifications, consider medication based on CVD risk"],
         stage2_hypertension |-> [description |-> "Stage 2 Hypertension",
                                  action |-> "Lifestyle modifications and medication"],
         hypertensive_crisis |-> [description |-> "Hypertensive Crisis",
                                  action |-> "Consult doctor immediately"]]]

\* A plausible slip in get_glucose_status: the two fasting comparisons swapped.
get_glucose_status_swapped(value, reading_type) ==
    LET targets == DIABETES_GUIDELINES.glucose_targets
    IN  IF reading_type = "fasting" THEN
            IF value > targets.fasting.max THEN
                [status |-> "low", severity |-> IF value >= 54 THEN "warning" ELSE "critical"]
            ELSE IF value < targets.fasting.min THEN
                [status |-> "high", severity |-> IF value < 180 THEN "warning" ELSE "elevated"]
            ELSE [status |-> "normal", severity |-> "normal"]
        ELSE [status |-> "unknown"]

get_glucose_status(value, reading_type) ==
    LET targets == DIABETES_GUIDELINES.glucose_targets
    IN  IF reading_type = "fasting" THEN
            IF value < targets.fasting.min THEN
                [status |-> "low",
                 action |-> "Consider adjusting meal timing or medication. Monitor for hypoglycemia.",
                 severity |-> IF value >= 54 THEN "warning" ELSE "critical"]
            ELSE IF value > targets.fasting.max THEN
                [status |-> "high",
                 action |-> "Review diet and medication. Increase physical activity.",
                 severity |-> IF value < 180 THEN "warning" ELSE "elevated"]
            ELSE
                [status |-> "normal",
                 action |-> "Keep up the good work!",
                 severity |-> "normal"]
        ELSE IF reading_type = "after_meal" THEN
            IF value > targets.postprandial.max THEN
                [status |-> "high",
                 action |-> "Consider lower-carbohydrate options for next meal",
                 severity |-> "warning"]
            ELSE
                [status |-> "normal",
                 action |-> "Good meal choice!",
                 severity |-> "normal"]
        ELSE [status |-> "unknown", message |-> "Unknown reading type"]

\* A plausible slip in get_bp_status: "and" for "or" in the crisis test.
get_bp_status_and(systolic, diastolic) ==
    LET categories == HYPERTENSION_GUIDELINES.bp_categories
        result(category, cat, severity) ==
            [category |-> category, description |-> cat.description,
             action |-> cat.action, severity |-> severity]
    IN  IF systolic >= 180 /\ diastolic >= 120 THEN
            result("hypertensive_crisis", categories.hypertensive_crisis, "critical")
        ELSE IF systolic >= 140 \/ diastolic >= 90 THEN
            result("stage2", categories.stage2_hypertension, "elevated")
        ELSE IF systolic >= 130 \/ diastolic >= 80 THEN
            result("stage1", categories.stage1_hypertension, "warning")
        ELSE IF systolic >= 120 THEN
            result("elevated", categories.elevated, "caution")
        ELSE result("normal", categories.normal, "normal")

get_bp_status(systolic, diastolic) ==
    LET categories == HYPERTENSION_GUIDELINES.bp_categories
        result(category, cat, severity) ==
            [category |-> category, description |-> cat.description,
             action |-> cat.action, severity |-> severity]
    IN  IF systolic >= 180 \/ diastolic >= 120 THEN
            result("hypertensive_crisis", categories.hypertensive_crisis, "critical")
        ELSE IF systolic >= 140 \/ diastolic >= 90 THEN
            result("stage2", categories.stage2_hypertension, "elevated")
        ELSE IF systolic >= 130 \/ diastolic >= 80 THEN
            result("stage1", categories.stage1_hypertension, "warning")
        ELSE IF systolic >= 120 THEN
            result("elevated", categories.elevated, "caution")
        ELSE result("normal", categories.normal, "normal")

\* ------------------------------------------------------------------------
\* trend_analyzer.py: the trend estimator
\* ------------------------------------------------------------------------

\* categorize_bp(systolic, diastolic), on the averages
categorize_bp(systolic, diastolic) ==
    IF FracLT(systolic, FracOfInt(120)) /\ FracLT(diastolic, FracOfInt(80))
    THEN "normal"
    ELSE IF FracLT(systolic, FracOfInt(130)) /\ FracLT(diastolic, FracOfInt(80))
    THEN "elevated"
    ELSE IF FracLT(systolic, FracOfInt(140)) \/ FracLT(diastolic, FracOfInt(90))
    THEN "stage1"
    ELSE "stage2"

\* A plausible slip in calculate_trend_direction: "<=" for "<" in the length test.
calculate_trend_direction_le(values) ==
    IF Len(values) <= 3 THEN "insufficient_data"
    ELSE
        LET mid == Len(values) \div 2
            first_half_avg == Frac(sum(Slice(values, 0, mid)), mid)
            second_half_avg == Frac(sum(Slice(values, mid, Len(values))), Len(values) - mid)
            diff_percent ==
                IF FracGT(first_half_avg, FracOfInt(0))
                THEN FracMul(FracDiv(FracSub(second_half_avg, first_half_avg),
                                     first_half_avg),
                             FracOfInt(100))
                ELSE FracOfInt(0)
        IN  IF FracGT(diff_percent, FracOfInt(5)) THEN "increasing"
            ELSE IF FracLT(diff_percent, FracOfInt(-5)) THEN "decreasing"
            ELSE "stable"

\* A plausible slip in calculate_trend_direction: the absolute difference of
\* the means compared with the glucose delta instead of the relative one.
calculate_trend_direction_abs(values) ==
    IF Len(values) < 3 THEN "insufficient_data"
    ELSE
        LET mid == Len(values) \div 2
            first_half_avg == Frac(sum(Slice(values, 0, mid)), mid)
            second_half_avg == Frac(sum(Slice(values, mid, Len(values))), Len(values) - mid)
            diff == FracSub(second_half_avg, first_half_avg)
        IN  IF FracGT(diff, FracOfInt(10)) THEN "increasing"
            ELSE IF FracLT(diff, FracOfInt(-10)) THEN "decreasing"
            ELSE "stable"

calculate_trend_direction(values) ==
    IF Len(values) < 3 THEN "insufficient_data"
    ELSE
        LET mid == Len(values) \div 2
            first_half_avg ==
                IF mid > 0 THEN Frac(sum(Slice(values, 0, mid)), mid)
                           ELSE FracOfInt(0)
            second_half_avg ==
                IF Len(values) - mid > 0
                THEN Frac(sum(Slice(values, mid, Len(values))), Len(values) - mid)
                ELSE FracOfInt(0)
            diff_percent ==
                IF FracGT(first_half_avg, FracOfInt(0))
                THEN FracMul(FracDiv(FracSub(second_half_avg, first_half_avg),
                                     first_half_avg),
                             FracOfInt(100))
                ELSE FracOfInt(0)
        IN  IF FracGT(diff_percent, FracOfInt(5)) THEN "increasing"
            ELSE IF FracLT(diff_percent, FracOfInt(-5)) THEN "decreasing"
            ELSE "stable"

\* ------------------------------------------------------------------------
\* ai_analyzer.py: the weekly aggregator
\* ------------------------------------------------------------------------

\* len([x for x in rows if keep(x)])
CountIf(rows, keep(_)) == Cardinality({i \in 1..Len(rows) : keep(rows[i])})

\* A plausible slip in calculate_diet_quality: a week counted as 7 meals.
calculate_diet_quality_week7(food_logs) ==
    IF food_logs = <<>> THEN
        [score |-> 0, rating |-> "No data", meals_logged |-> 0, avg_calories |-> 0]
    ELSE
        LET meals_logged == Len(food_logs)
            consistency == FracMin(FracOfInt(100),
                                   FracMul(Frac(meals_logged, 7), FracOfInt(100)))
            tier == IF FracGE(consistency, FracOfInt(70)) THEN <<"Excellent", 90>>
                    ELSE IF FracGE(consistency, FracOfInt(50)) THEN <<"Good", 70>>
                    ELSE IF FracGE(consistency, FracOfInt(30)) THEN <<"Fair", 50>>
                    ELSE <<"Needs Improvement", 30>>
        IN  [score |-> tier[2], rating |-> tier[1], meals_logged |-> meals_logged,
             avg_calories |-> 0, total_calories |-> 0]

calculate_diet_quality(food_logs) ==
    IF food_logs = <<>> THEN
        [score |-> 0, rating |-> "No data", meals_logged |-> 0, avg_calories |-> 0]
    ELSE
        LET total_calories == sum(Column(food_logs, "value"))
            meals_logged == Len(food_logs)
            avg_calories == IF meals_logged > 0 THEN Frac(total_calories, meals_logged)
                                                ELSE FracOfInt(0)
            consistency == FracMin(FracOfInt(100),
                                   FracMul(Frac(meals_logged, 21), FracOfInt(100)))
            tier == IF FracGE(consistency, FracOfInt(70)) THEN <<"Excellent", 90>>
                    ELSE IF FracGE(consistency, FracOfInt(50)) THEN <<"Good", 70>>
                    ELSE IF FracGE(consistency, FracOfInt(30)) THEN <<"Fair", 50>>
                    ELSE <<"Needs Improvement", 30>>
        IN  [score |-> tier[2], rating |-> tier[1], meals_logged |-> meals_logged,
             avg_calories |-> Round0(avg_calories),
             total_calories |-> total_calories]

\* The four-tier rating both exercise scores share.
ExerciseTier(percentage) ==
    IF FracGE(percentage, FracOfInt(100)) THEN <<"Excellent", 100>>
    ELSE IF FracGE(percentage, FracOfInt(75)) THEN <<"Good", 80>>
    ELSE IF FracGE(percentage, FracOfInt(50)) THEN <<"Fair", 60>>
    ELSE <<"Needs Improvement", 40>>

\* A plausible slip in the exercise score: ">" for ">=" at the top tier.
calculate_exercise_consistency_with_strava_gt(activity_logs, strava_stats) ==
    LET manual_minutes == sum(Column(activity_logs, "value"))
        strava_minutes == strava_stats.total_minutes
        total_minutes == manual_minutes + strava_minutes
        percentage == FracMin(FracOfInt(100),
                              FracMul(Frac(total_minutes, 150), FracOfInt(100)))
        tier == IF FracGT(percentage, FracOfInt(100)) THEN <<"Excellent", 100>>
                ELSE IF FracGE(percentage, FracOfInt(75)) THEN <<"Good", 80>>
                ELSE IF FracGE(percentage, FracOfInt(50)) THEN <<"Fair", 60>>
                ELSE <<"Needs Improvement", 40>>
    IN  [score |-> tier[2], rating |-> tier[1],
         total_minutes |-> total_minutes,
         manual_minutes |-> manual_minutes,
         strava_minutes |-> strava_minutes,
         target_minutes |-> 150,
         sessions |-> Len(activity_logs) + strava_stats.activity_count,
         percentage_of_goal |-> Round0(percentage),
         strava_connected |-> strava_minutes > 0 \/ strava_stats.activity_count > 0]

calculate_exercise_consistency_with_strava(activity_logs, strava_stats) ==
    LET manual_minutes == IF activity_logs # <<>>
                          THEN sum(Column(activity_logs, "value")) ELSE 0
        manual_sessions == IF activity_logs # <<>> THEN Len(activity_logs) ELSE 0
        strava_minutes == strava_stats.total_minutes
        strava_sessions == strava_stats.activity_count
        total_minutes == manual_minutes + strava_minutes
        total_sessions == manual_sessions + strava_sessions
        target_minutes == 150
        percentage ==
            IF target_minutes > 0
            THEN FracMin(FracOfInt(100),
                         FracMul(Frac(total_minutes, target_minutes), FracOfInt(100)))
            ELSE FracOfInt(0)
        tier == ExerciseTier(percentage)
    IN  [score |-> tier[2], rating |-> tier[1],
         total_minutes |-> total_minutes,
         manual_minutes |-> manual_minutes,
         strava_minutes |-> strava_minutes,
         target_minutes |-> target_minutes,
         sessions |-> total_sessions,
         percentage_of_goal |-> Round0(percentage),
         strava_connected |-> strava_minutes > 0 \/ strava_sessions > 0]

calculate_exercise_consistency(activity_logs) ==
    IF activity_logs = <<>> THEN
        [score |-> 0, rating |-> "No data", total_minutes |-> 0, sessions |-> 0]
    ELSE
        LET total_minutes == sum(Column(activity_logs, "value"))
            sessions == Len(activity_logs)
            target_minutes == 150
            percentage == FracMin(FracOfInt(100),
                                  FracMul(Frac(total_minutes, target_minutes),
                                          FracOfInt(100)))
            tier == ExerciseTier(percentage)
        IN  [score |-> tier[2], rating |-> tier[1],
             total_minutes |-> total_minutes,
             target_minutes |-> target_minutes,
             sessions |-> sessions,
             percentage_of_goal |-> Round0(percentage)]

\* A plausible slip in calculate_medication_adherence: the early return for
\* an empty medication list dropped, so the score comes from the logs.
calculate_medication_adherence_noguard(meds, med_logs) ==
    LET expected_doses == Len(meds) * 7
        taken_doses == CountIf(med_logs, LAMBDA log : log.taken_at # "NULL")
        percentage ==
            IF expected_doses = 0 THEN FracOfInt(IF taken_doses > 0 THEN 100 ELSE 0)
            ELSE FracMin(FracOfInt(100),
                         FracMul(Frac(taken_doses, expected_doses), FracOfInt(100)))
        tier == IF FracGE(percentage, FracOfInt(90)) THEN <<"Excellent", 95>>
                ELSE IF FracGE(percentage, FracOfInt(75)) THEN <<"Good", 75>>
                ELSE IF FracGE(percentage, FracOfInt(50)) THEN <<"Fair", 50>>
                ELSE <<"Needs Improvement", 30>>
    IN  [score |-> tier[2], rating |-> tier[1],
         percentage |-> Round0(percentage),
         expected_doses |-> expected_doses,
         taken_doses |-> taken_doses]

calculate_medication_adherence(meds, med_logs) ==
    IF meds = <<>> THEN
        [score |-> 100, rating |-> "No medications", percentage |-> 100]
    ELSE
        LET expected_doses == Len(meds) * 7
            taken_doses == CountIf(med_logs, LAMBDA log : log.taken_at # "NULL")
            percentage ==
                IF expected_doses = 0 THEN FracOfInt(100)
                ELSE FracMin(FracOfInt(100),
                             FracMul(Frac(taken_doses, expected_doses), FracOfInt(100)))
            tier == IF FracGE(percentage, FracOfInt(90)) THEN <<"Excellent", 95>>
                    ELSE IF FracGE(percentage, FracOfInt(75)) THEN <<"Good", 75>>
                    ELSE IF FracGE(percentage, FracOfInt(50)) THEN <<"Fair", 50>>
                    ELSE <<"Needs Improvement", 30>>
        IN  [score |-> tier[2], rating |-> tier[1],
             percentage |-> Round0(percentage),
             expected_doses |-> expected_doses,
             taken_doses |-> taken_doses]

\* A plausible slip in the weekly trend: the split at ceil(n/2)
WeekTrend_ceil(values, delta) ==
    IF Len(values) >= 3 THEN
        LET half == (Len(values) + 1) \div 2
            first_half_avg == Frac(sum(Slice(values, 0, half)), half)
            second_half_avg == Frac(sum(Slice(values, half, Len(values))),
                                    Len(values) - half)
        IN  IF FracLT(second_half_avg, FracSub(first_half_avg, FracOfInt(delta)))
            THEN "improving"
            ELSE IF FracGT(second_half_avg, FracAdd(first_half_avg, FracOfInt(delta)))
            THEN "worsening"
            ELSE "stable"
    ELSE "insufficient_data"

\* The split-half trend of the weekly analyses, with its absolute delta.
WeekTrend(values, delta) ==
    IF Len(values) >= 3 THEN
        LET half == Len(values) \div 2
            first_half_avg == Frac(sum(Slice(values, 0, half)), half)
            second_half_avg == Frac(sum(Slice(values, half, Len(values))),
                                    Len(values) - half)
        IN  IF FracLT(second_half_avg, FracSub(first_half_avg, FracOfInt(delta)))
            THEN "improving"
            ELSE IF FracGT(second_half_avg, FracAdd(first_half_avg, FracOfInt(delta)))
            THEN "worsening"
            ELSE "stable"
    ELSE "insufficient_data"

RECURSIVE MinOf(_)
\* min(values), values non-empty
MinOf(values) ==
    IF Len(values) = 1 THEN values[1]
    ELSE LET m == MinOf(Tail(values))
         IN  IF values[1] <= m THEN values[1] ELSE m

RECURSIVE MaxOf(_)
\* max(values), values non-empty
MaxOf(values) ==
    IF Len(values) = 1 THEN values[1]
    ELSE LET m == MaxOf(Tail(values))
         IN  IF values[1] >= m THEN values[1] ELSE m

analyze_glucose_week(glucose_logs) ==
    IF glucose_logs = <<>> THEN
        [average |-> 0, trend |-> "no_data", in_range_percentage |-> 0, readings |-> 0]
    ELSE
        LET values == Column(glucose_logs, "value")
            avg_glucose == Frac(sum(values), Len(values))
            in_range == Cardinality({i \in 1..Len(values) :
                                        80 <= values[i] /\ values[i] <= 180})
            in_range_pct == FracMul(Frac(in_range, Len(values)), FracOfInt(100))
        IN  [average |-> Round0(avg_glucose),
             min |-> MinOf(values),
             max |-> MaxOf(values),
             trend |-> WeekTrend(values, 10),
             in_range_percentage |-> Round0(in_range_pct),
             readings |-> Len(values)]

analyze_bp_week(bp_logs) ==
    IF bp_logs = <<>> THEN
        [avg_systolic |-> 0, avg_diastolic |-> 0, trend |-> "no_data", readings |-> 0]
    ELSE
        LET systolic_values == Column(bp_logs, "value")
            diastolic_values == Column(bp_logs, "value_secondary")
            avg_systolic == Frac(sum(systolic_values), Len(systolic_values))
            avg_diastolic == Frac(sum(diastolic_values), Len(diastolic_values))
            in_range == Cardinality({i \in 1..Len(bp_logs) :
                                        systolic_values[i] < 130
                                        /\ diastolic_values[i] < 80})
            in_range_pct == FracMul(Frac(in_range, Len(bp_logs)), FracOfInt(100))
        IN  [avg_systolic |-> Round0(avg_systolic),
             avg_diastolic |-> Round0(avg_diastolic),
             trend |-> WeekTrend(systolic_values, 5),
             in_range_percentage |-> Round0(in_range_pct),
             readings |-> Len(bp_logs)]

\* ------------------------------------------------------------------------
\* Python strings: a str is modelled as the sequence of its characters
\* ------------------------------------------------------------------------

ascii_uppercase ==
    <<"A", "B", "C", "D", "E", "F", "G", "H", "I", "J", "K", "L", "M",
      "N", "O", "P", "Q", "R", "S", "T", "U", "V", "W", "X", "Y", "Z">>

ascii_lowercase ==
    <<"a", "b", "c", "d", "e", "f", "g", "h", "i", "j", "k", "l", "m",
      "n", "o", "p", "q", "r", "s", "t", "u", "v", "w", "x", "y", "z">>

whitespace == {" ", "\t", "\n"}

\* s.lower()
lower(s) ==
    [i \in 1..Len(s) |->
        IF \E k \in DOMAIN ascii_uppercase : ascii_uppercase[k] = s[i]
        THEN ascii_lowercase[CHOOSE k \in DOMAIN ascii_uppercase :
                                ascii_uppercase[k] = s[i]]
        ELSE s[i]]

\* s.strip(chars): drop the leading and the trailing characters that are in chars
strip(s, chars) ==
    LET keep == {i \in 1..Len(s) : s[i] \notin chars}
    IN  IF keep = {} THEN <<>>
        ELSE SubSeq(s, CHOOSE i \in keep : \A j \in keep : i <= j,
                       CHOOSE i \in keep : \A j \in keep : i >= j)

\* sub in s
contains(s, sub) ==
    \E i \in 0..(Len(s) - Len(sub)) : SubSeq(s, i + 1, i + Len(sub)) = sub

\* s.split(): the words between runs of whitespace
split(s) ==
    LET starts == {i \in 1..Len(s) :
                        s[i] \notin whitespace /\ (i = 1 \/ s[i - 1] \in whitespace)}
        start(k) == CHOOSE b \in starts : Cardinality({x \in starts : x <= b}) = k
        end(b) == CHOOSE e \in b..Len(s) :
                        /\ \A j \in b..e : s[j] \notin whitespace
                        /\ e = Len(s) \/ s[e + 1] \in whitespace
    IN  [k \in 1..Cardinality(starts) |-> SubSeq(s, start(k), end(start(k)))]

\* ------------------------------------------------------------------------
\* ai_analyzer.py: the deterministic food estimator
\* ------------------------------------------------------------------------

\* the decimal literal units.tenths
Dec(units, tenths) == Frac(10 * units + tenths, 10)

\* round(x, 1).  The model rounds the exact number; a float that stands for a
\* decimal ending in 5 may round the other way, and the inputs of the model
\* are chosen so that no such tie is rounded.
Round1(x) == Frac(Round0(FracMul(x, Frac(10, 1))), 10)

\* int(x) for x >= 0
int(x) == x.num \div x.den

\* Per-serving nutrition of the known foods, in the order of the dict
FOOD_DATABASE == <<
    \* "rice"
    [name |-> <<"r", "i", "c", "e">>,
     calories |-> Dec(130, 0), carbs |-> Dec(28, 0), sugar |-> Dec(0, 0),
     fiber |-> Dec(0, 4), protein |-> Dec(2, 7), gi |-> Dec(73, 0)],
    \* "white rice"
    [name |-> <<"w", "h", "i", "t", "e", " ", "r", "i", "c", "e">>,
     calories |-> Dec(130, 0), carbs |-> Dec(28, 0), sugar |-> Dec(0, 0),
     fiber |-> Dec(0, 4), protein |-> Dec(2, 7), gi |-> Dec(73, 0)],
    \* "brown rice"
    [name |-> <<"b", "r", "o", "w", "n", " ", "r", "i", "c", "e">>,
     calories |-> Dec(112, 0), carbs |-> Dec(24, 0), sugar |-> Dec(0, 0),
     fiber |-> Dec(1, 8), protein |-> Dec(2, 6), gi |-> Dec(50, 0)],
    \* "bread"
    [name |-> <<"b", "r", "e", "a", "d">>,
     calories |-> Dec(79, 0), carbs |-> Dec(15, 0), sugar |-> Dec(1, 5),
     fiber |-> Dec(0, 6), protein |-> Dec(2, 7), gi |-> Dec(75, 0)],
    \* "whole wheat bread"
    [name |-> <<"w", "h", "o", "l", "e", " ", "w", "h", "e", "a", "t", " ", "b", "r", "e", "a", "d">>,
     calories |-> Dec(81, 0), carbs |-> Dec(14, 0), sugar |-> Dec(1, 4),
     fiber |-> Dec(2, 0), protein |-> Dec(4, 0), gi |-> Dec(51, 0)],
    \* "roti"
    [name |-> <<"r", "o", "t", "i">>,
     calories |-> Dec(71, 0), carbs |-> Dec(15, 0), sugar |-> Dec(0, 3),
     fiber |-> Dec(1, 9), protein |-> Dec(2, 7), gi |-> Dec(62, 0)],
    \* "chapati"
    [name |-> <<"c", "h", "a", "p", "a", "t", "i">>,
     calories |-> Dec(71, 0), carbs |-> Dec(15, 0), sugar |-> Dec(0, 3),
     fiber |-> Dec(1, 9), protein |-> Dec(2, 7), gi |-> Dec(62, 0)],
    \* "oats"
    [name |-> <<"o", "a", "t", "s">>,
     calories |-> Dec(68, 0), carbs |-> Dec(12, 0), sugar |-> Dec(0, 5),
     fiber |-> Dec(1, 7), protein |-> Dec(2, 4), gi |-> Dec(55, 0)],
    \* "pasta"
    [name |-> <<"p", "a", "s", "t", "a">>,
     calories |-> Dec(131, 0), carbs |-> Dec(25, 0), sugar |-> Dec(0, 6),
     fiber |-> Dec(1, 8), protein |-> Dec(5, 0), gi |-> Dec(50, 0)],
    \* "chicken"
    [name |-> <<"c", "h", "i", "c", "k", "e", "n">>,
     calories |-> Dec(165, 0), carbs |-> Dec(0, 0), sugar |-> Dec(0, 0),
     fiber |-> Dec(0, 0), protein |-> Dec(31, 0), gi |-> Dec(0, 0)],
    \* "fish"
    [name |-> <<"f", "i", "s", "h">>,
     calories |-> Dec(206, 0), carbs |-> Dec(0, 0), sugar |-> Dec(0, 0),
     fiber |-> Dec(0, 0), protein |-> Dec(22, 0), gi |-> Dec(0, 0)],
    \* "egg"
    [name |-> <<"e", "g", "g">>,
     calories |-> Dec(155, 0), carbs |-> Dec(1, 1), sugar |-> Dec(1, 1),
     fiber |-> Dec(0, 0), protein |-> Dec(13, 0), gi |-> Dec(0, 0)],
    \* "eggs"
    [name |-> <<"e", "g", "g", "s">>,
     calories |-> Dec(155, 0), carbs |-> Dec(1, 1), sugar |-> Dec(1, 1),
     fiber |-> Dec(0, 0), protein |-> Dec(13, 0), gi |-> Dec(0, 0)],
    \* "dal"
    [name |-> <<"d", "a", "l">>,
     calories |-> Dec(116, 0), carbs |-> Dec(20, 0), sugar |-> Dec(1, 0),
     fiber |-> Dec(8, 0), protein |-> Dec(9, 0), gi |-> Dec(30, 0)],
    \* "lentils"
    [name |-> <<"l", "e", "n", "t", "i", "l", "s">>,
     calories |-> Dec(116, 0), carbs |-> Dec(20, 0), sugar |-> Dec(1, 0),
     fiber |-> Dec(8, 0), protein |-> Dec(9, 0), gi |-> Dec(30, 0)],
    \* "paneer"
    [name |-> <<"p", "a", "n", "e", "e", "r">>,
     calories |-> Dec(265, 0), carbs |-> Dec(1, 2), sugar |-> Dec(0, 5),
     fiber |-> Dec(0, 0), protein |-> Dec(18, 0), gi |-> Dec(0, 0)],
    \* "tofu"
    [name |-> <<"t", "o", "f", "u">>,
     calories |-> Dec(76, 0), carbs |-> Dec(1, 9), sugar |-> Dec(0, 6),
     fiber |-> Dec(0, 3), protein |-> Dec(8, 0), gi |-> Dec(15, 0)],
    \* "salad"
    [name |-> <<"s", "a", "l", "a", "d">>,
     calories |-> Dec(20, 0), carbs |-> Dec(3, 6), sugar |-> Dec(1, 3),
     fiber |-> Dec(1, 8), protein |-> Dec(1, 3), gi |-> Dec(15, 0)],
    \* "vegetables"
    [name |-> <<"v", "e", "g", "e", "t", "a", "b", "l", "e", "s">>,
     calories |-> Dec(25, 0), carbs |-> Dec(5, 0), sugar |-> Dec(2, 4),
     fiber |-> Dec(2, 0), protein |-> Dec(1, 3), gi |-> Dec(15, 0)],
    \* "spinach"
    [name |-> <<"s", "p", "i", "n", "a", "c", "h">>,
     calories |-> Dec(23, 0), carbs |-> Dec(3, 6), sugar |-> Dec(0, 4),
     fiber |-> Dec(2, 2), protein |-> Dec(2, 9), gi |-> Dec(15, 0)],
    \* "broccoli"
    [name |-> <<"b", "r", "o", "c", "c", "o", "l", "i">>,
     calories |-> Dec(34, 0), carbs |-> Dec(7, 0), sugar |-> Dec(1, 7),
     fiber |-> Dec(2, 6), protein |-> Dec(2, 8), gi |-> Dec(10, 0)],
    \* "potato"
    [name |-> <<"p", "o", "t", "a", "t", "o">>,
     calories |-> Dec(77, 0), carbs |-> Dec(17, 0), sugar |-> Dec(0, 8),
     fiber |-> Dec(2, 2), protein |-> Dec(2, 0), gi |-> Dec(78, 0)],
    \* "sweet potato"
    [name |-> <<"s", "w", "e", "e", "t", " ", "p", "o", "t", "a", "t", "o">>,
     calories |-> Dec(86, 0), carbs |-> Dec(20, 0), sugar |-> Dec(4, 2),
     fiber |-> Dec(3, 0), protein |-> Dec(1, 6), gi |-> Dec(63, 0)],
    \* "apple"
    [name |-> <<"a", "p", "p", "l", "e">>,
     calories |-> Dec(52, 0), carbs |-> Dec(14, 0), sugar |-> Dec(10, 0),
     fiber |-> Dec(2, 4), protein |-> Dec(0, 3), gi |-> Dec(36, 0)],
    \* "banana"
    [name |-> <<"b", "a", "n", "a", "n", "a">>,
     calories |-> Dec(89, 0), carbs |-> Dec(23, 0), sugar |-> Dec(12, 0),
     fiber |-> Dec(2, 6), protein |-> Dec(1, 1), gi |-> Dec(51, 0)],
    \* "orange"
    [name |-> <<"o", "r", "a", "n", "g", "e">>,
     calories |-> Dec(47, 0), carbs |-> Dec(12, 0), sugar |-> Dec(9, 0),
     fiber |-> Dec(2, 4), protein |-> Dec(0, 9), gi |-> Dec(43, 0)],
    \* "mango"
    [name |-> <<"m", "a", "n", "g", "o">>,
     calories |-> Dec(60, 0), carbs |-> Dec(15, 0), sugar |-> Dec(14, 0),
     fiber |-> Dec(1, 6), protein |-> Dec(0, 8), gi |-> Dec(56, 0)],
    \* "grapes"
    [name |-> <<"g", "r", "a", "p", "e", "s">>,
     calories |-> Dec(69, 0), carbs |-> Dec(18, 0), sugar |-> Dec(16, 0),
     fiber |-> Dec(0, 9), protein |-> Dec(0, 7), gi |-> Dec(59, 0)],
    \* "watermelon"
    [name |-> <<"w", "a", "t", "e", "r", "m", "e", "l", "o", "n">>,
     calories |-> Dec(30, 0), carbs |-> Dec(8, 0), sugar |-> Dec(6, 0),
     fiber |-> Dec(0, 4), protein |-> Dec(0, 6), gi |-> Dec(76, 0)],
    \* "milk"
    [name |-> <<"m", "i", "l", "k">>,
     calories |-> Dec(42, 0), carbs |-> Dec(5, 0), sugar |-> Dec(5, 0),
     fiber |-> Dec(0, 0), protein |-> Dec(3, 4), gi |-> Dec(39, 0)],
    \* "yogurt"
    [name |-> <<"y", "o", "g", "u", "r", "t">>,
     calories |-> Dec(59, 0), carbs |-> Dec(3, 6), sugar |-> Dec(3, 2),
     fiber |-> Dec(0, 0), protein |-> Dec(10, 0), gi |-> Dec(35, 0)],
    \* "curd"
    [name |-> <<"c", "u", "r", "d">>,
     calories |-> Dec(98, 0), carbs |-> Dec(3, 4), sugar |-> Dec(3, 4),
     fiber |-> Dec(0, 0), protein |-> Dec(11, 0), gi |-> Dec(35, 0)],
    \* "cheese"
    [name |-> <<"c", "h", "e", "e", "s", "e">>,
     calories |-> Dec(402, 0), carbs |-> Dec(1, 3), sugar |-> Dec(0, 5),
     fiber |-> Dec(0, 0), protein |-> Dec(25, 0), gi |-> Dec(0, 0)],
    \* "idli"
    [name |-> <<"i", "d", "l", "i">>,
     calories |-> Dec(39, 0), carbs |-> Dec(8, 0), sugar |-> Dec(0, 2),
     fiber |-> Dec(0, 4), protein |-> Dec(1, 3), gi |-> Dec(77, 0)],
    \* "dosa"
    [name |-> <<"d", "o", "s", "a">>,
     calories |-> Dec(133, 0), carbs |-> Dec(18, 0), sugar |-> Dec(1, 5),
     fiber |-> Dec(1, 0), protein |-> Dec(4, 0), gi |-> Dec(77, 0)],
    \* "upma"
    [name |-> <<"u", "p", "m", "a">>,
     calories |-> Dec(161, 0), carbs |-> Dec(26, 0), sugar |-> Dec(1, 0),
     fiber |-> Dec(2, 0), protein |-> Dec(4, 0), gi |-> Dec(65, 0)],
    \* "poha"
    [name |-> <<"p", "o", "h", "a">>,
     calories |-> Dec(180, 0), carbs |-> Dec(32, 0), sugar |-> Dec(2, 0),
     fiber |-> Dec(1, 0), protein |-> Dec(3, 5), gi |-> Dec(64, 0)],
    \* "biryani"
    [name |-> <<"b", "i", "r", "y", "a", "n", "i">>,
     calories |-> Dec(290, 0), carbs |-> Dec(35, 0), sugar |-> Dec(2, 0),
     fiber |-> Dec(1, 0), protein |-> Dec(15, 0), gi |-> Dec(70, 0)],
    \* "pizza"
    [name |-> <<"p", "i", "z", "z", "a">>,
     calories |-> Dec(266, 0), carbs |-> Dec(33, 0), sugar |-> Dec(3, 6),
     fiber |-> Dec(2, 3), protein |-> Dec(11, 0), gi |-> Dec(80, 0)],
    \* "burger"
    [name |-> <<"b", "u", "r", "g", "e", "r">>,
     calories |-> Dec(295, 0), carbs |-> Dec(24, 0), sugar |-> Dec(5, 0),
     fiber |-> Dec(1, 3), protein |-> Dec(17, 0), gi |-> Dec(66, 0)],
    \* "sandwich"
    [name |-> <<"s", "a", "n", "d", "w", "i", "c", "h">>,
     calories |-> Dec(252, 0), carbs |-> Dec(29, 0), sugar |-> Dec(4, 0),
     fiber |-> Dec(2, 0), protein |-> Dec(10, 0), gi |-> Dec(55, 0)],
    \* "tea"
    [name |-> <<"t", "e", "a">>,
     calories |-> Dec(2, 0), carbs |-> Dec(0, 5), sugar |-> Dec(0, 0),
     fiber |-> Dec(0, 0), protein |-> Dec(0, 0), gi |-> Dec(0, 0)],
    \* "coffee"
    [name |-> <<"c", "o", "f", "f", "e", "e">>,
     calories |-> Dec(2, 0), carbs |-> Dec(0, 0), sugar |-> Dec(0, 0),
     fiber |-> Dec(0, 0), protein |-> Dec(0, 3), gi |-> Dec(0, 0)],
    \* "juice"
    [name |-> <<"j", "u", "i", "c", "e">>,
     calories |-> Dec(45, 0), carbs |-> Dec(11, 0), sugar |-> Dec(10, 0),
     fiber |-> Dec(0, 2), protein |-> Dec(0, 4), gi |-> Dec(50, 0)],
    \* "soda"
    [name |-> <<"s", "o", "d", "a">>,
     calories |-> Dec(41, 0), carbs |-> Dec(10, 6), sugar |-> Dec(10, 6),
     fiber |-> Dec(0, 0), protein |-> Dec(0, 0), gi |-> Dec(63, 0)],
    \* "lassi"
    [name |-> <<"l", "a", "s", "s", "i">>,
     calories |-> Dec(72, 0), carbs |-> Dec(8, 0), sugar |-> Dec(7, 0),
     fiber |-> Dec(0, 0), protein |-> Dec(3, 0), gi |-> Dec(35, 0)],
    \* "biscuits"
    [name |-> <<"b", "i", "s", "c", "u", "i", "t", "s">>,
     calories |-> Dec(502, 0), carbs |-> Dec(63, 0), sugar |-> Dec(20, 0),
     fiber |-> Dec(2, 0), protein |-> Dec(6, 0), gi |-> Dec(70, 0)],
    \* "chips"
    [name |-> <<"c", "h", "i", "p", "s">>,
     calories |-> Dec(536, 0), carbs |-> Dec(53, 0), sugar |-> Dec(0, 3),
     fiber |-> Dec(4, 4), protein |-> Dec(7, 0), gi |-> Dec(54, 0)],
    \* "samosa"
    [name |-> <<"s", "a", "m", "o", "s", "a">>,
     calories |-> Dec(262, 0), carbs |-> Dec(24, 0), sugar |-> Dec(2, 0),
     fiber |-> Dec(2, 0), protein |-> Dec(4, 0), gi |-> Dec(60, 0)],
    \* "pakora"
    [name |-> <<"p", "a", "k", "o", "r", "a">>,
     calories |-> Dec(200, 0), carbs |-> Dec(18, 0), sugar |-> Dec(1, 0),
     fiber |-> Dec(2, 0), protein |-> Dec(5, 0), gi |-> Dec(55, 0)],
    \* "nuts"
    [name |-> <<"n", "u", "t", "s">>,
     calories |-> Dec(607, 0), carbs |-> Dec(21, 0), sugar |-> Dec(4, 0),
     fiber |-> Dec(7, 0), protein |-> Dec(20, 0), gi |-> Dec(15, 0)],
    \* "almonds"
    [name |-> <<"a", "l", "m", "o", "n", "d", "s">>,
     calories |-> Dec(579, 0), carbs |-> Dec(22, 0), sugar |-> Dec(4, 0),
     fiber |-> Dec(12, 5), protein |-> Dec(21, 0), gi |-> Dec(0, 0)]
    >>

GI_LOW == 55

GI_MEDIUM == 70

\* A plausible slip in calculate_glucose_spike_risk: ">" for ">=" in the test of
\* the high level
calculate_glucose_spike_risk_gt(nutrition) ==
    LET carbs == nutrition.carbs
        sugar == nutrition.sugar
        fiber == nutrition.fiber
        gi == nutrition.gi
        gl == FracDiv(FracMul(carbs, gi), Frac(100, 1))
        net_carbs == IF FracLT(FracSub(carbs, fiber), Frac(0, 1)) THEN Frac(0, 1)
                     ELSE FracSub(carbs, fiber)
        gi_step == IF FracGT(gi, Frac(GI_MEDIUM, 1))
                   THEN [score |-> 3, factors |-> <<"High glycemic index food">>]
                   ELSE IF FracGT(gi, Frac(GI_LOW, 1))
                   THEN [score |-> 1, factors |-> <<"Medium glycemic index food">>]
                   ELSE [score |-> 0, factors |-> <<>>]
        carb_step == IF FracGT(net_carbs, Frac(45, 1))
                     THEN [score |-> 3, factors |-> <<"High carbohydrate content">>]
                     ELSE IF FracGT(net_carbs, Frac(30, 1))
                     THEN [score |-> 2, factors |-> <<"Moderate carbohydrate content">>]
                     ELSE [score |-> 0, factors |-> <<>>]
        sugar_step == IF FracGT(sugar, Frac(15, 1))
                      THEN [score |-> 3, factors |-> <<"High sugar content">>]
                      ELSE IF FracGT(sugar, Frac(8, 1))
                      THEN [score |-> 1, factors |-> <<"Moderate sugar content">>]
                      ELSE [score |-> 0, factors |-> <<>>]
        fiber_step == IF FracLT(fiber, Frac(2, 1))
                      THEN [score |-> 1, factors |-> <<"Low fiber content">>]
                      ELSE [score |-> 0, factors |-> <<>>]
        risk_score == gi_step.score + carb_step.score + sugar_step.score
                        + fiber_step.score
        risk_factors == gi_step.factors \o carb_step.factors \o sugar_step.factors
                            \o fiber_step.factors
    IN  [level |-> IF risk_score > 6 THEN "high"
                   ELSE IF risk_score >= 3 THEN "medium" ELSE "low",
         score |-> risk_score,
         color |-> IF risk_score > 6 THEN "red"
                   ELSE IF risk_score >= 3 THEN "orange" ELSE "green",
         glycemic_load |-> Round1(gl),
         net_carbs |-> Round1(net_carbs),
         factors |-> risk_factors]

\* calculate_glucose_spike_risk(nutrition)
calculate_glucose_spike_risk(nutrition) ==
    LET carbs == nutrition.carbs
        sugar == nutrition.sugar
        fiber == nutrition.fiber
        gi == nutrition.gi
        gl == FracDiv(FracMul(carbs, gi), Frac(100, 1))
        net_carbs == IF FracLT(FracSub(carbs, fiber), Frac(0, 1)) THEN Frac(0, 1)
                     ELSE FracSub(carbs, fiber)
        gi_step == IF FracGT(gi, Frac(GI_MEDIUM, 1))
                   THEN [score |-> 3, factors |-> <<"High glycemic index food">>]
                   ELSE IF FracGT(gi, Frac(GI_LOW, 1))
                   THEN [score |-> 1, factors |-> <<"Medium glycemic index food">>]
                   ELSE [score |-> 0, factors |-> <<>>]
        carb_step == IF FracGT(net_carbs, Frac(45, 1))
                     THEN [score |-> 3, factors |-> <<"High carbohydrate content">>]
                     ELSE IF FracGT(net_carbs, Frac(30, 1))
                     THEN [score |-> 2, factors |-> <<"Moderate carbohydrate content">>]
                     ELSE [score |-> 0, factors |-> <<>>]
        sugar_step == IF FracGT(sugar, Frac(15, 1))
                      THEN [score |-> 3, factors |-> <<"High sugar content">>]
                      ELSE IF FracGT(sugar, Frac(8, 1))
                      THEN [score |-> 1, factors |-> <<"Moderate sugar content">>]
                      ELSE [score |-> 0, factors |-> <<>>]
        fiber_step == IF FracLT(fiber, Frac(2, 1))
                      THEN [score |-> 1, factors |-> <<"Low fiber content">>]
                      ELSE [score |-> 0, factors |-> <<>>]
        risk_score == gi_step.score + carb_step.score + sugar_step.score
                        + fiber_step.score
        risk_factors == gi_step.factors \o carb_step.factors \o sugar_step.factors
                            \o fiber_step.factors
    IN  [level |-> IF risk_score >= 6 THEN "high"
                   ELSE IF risk_score >= 3 THEN "medium" ELSE "low",
         score |-> risk_score,
         color |-> IF risk_score >= 6 THEN "red"
                   ELSE IF risk_score >= 3 THEN "orange" ELSE "green",
         glycemic_load |-> Round1(gl),
         net_carbs |-> Round1(net_carbs),
         factors |-> risk_factors]

\* assess_meal_suitability(nutrition)
assess_meal_suitability(nutrition) ==
    LET carbs == nutrition.carbs
        sugar == nutrition.sugar
        fiber == nutrition.fiber
        protein == nutrition.protein
        gi == nutrition.gi
        is_suitable == ~FracGT(carbs, Frac(45, 1)) /\ ~FracGT(sugar, Frac(15, 1))
        improvements ==
            (IF FracGT(carbs, Frac(45, 1))
             THEN <<"Consider reducing portion size or choosing a lower-carb alternative">>
             ELSE IF FracGT(carbs, Frac(30, 1))
             THEN <<"Pair with protein or healthy fat to slow glucose absorption">>
             ELSE <<>>)
            \o (IF FracGT(sugar, Frac(15, 1))
                THEN <<"High sugar content - choose a lower-sugar alternative">>
                ELSE IF FracGT(sugar, Frac(8, 1))
                THEN <<"Moderate sugar - consume in moderation">>
                ELSE <<>>)
            \o (IF FracGT(gi, Frac(GI_MEDIUM, 1))
                THEN <<"High GI - pair with low-GI foods or add vinegar/lemon">>
                ELSE <<>>)
        positives ==
            (IF FracGT(fiber, Frac(5, 1))
             THEN <<"Good fiber content helps slow glucose absorption">>
             ELSE <<>>)
            \o (IF FracGT(protein, Frac(15, 1))
                THEN <<"High protein content helps maintain stable blood sugar">>
                ELSE <<>>)
            \o (IF FracLT(gi, Frac(GI_LOW, 1))
                THEN <<"Low glycemic index - good choice for blood sugar control">>
                ELSE <<>>)
            \o (IF FracLT(carbs, Frac(20, 1)) /\ FracGT(protein, Frac(10, 1))
                THEN <<"Excellent balance of protein with low carbs">>
                ELSE <<>>)
    IN  [suitable |-> is_suitable,
         rating |-> IF is_suitable /\ improvements = <<>> THEN "Good"
                    ELSE IF is_suitable THEN "Acceptable" ELSE "Caution",
         positives |-> positives,
         improvements |-> improvements]

\* food_name in FOOD_DATABASE
InFoodDatabase(food_name) ==
    \E k \in DOMAIN FOOD_DATABASE : FOOD_DATABASE[k].name = food_name

\* FOOD_DATABASE[food_name]
FoodData(food_name) ==
    FOOD_DATABASE[CHOOSE k \in DOMAIN FOOD_DATABASE :
                    FOOD_DATABASE[k].name = food_name]

NutritionKeys == {"calories", "carbs", "sugar", "fiber", "protein", "gi"}

\* total_nutrition[key] after total_nutrition[key] += food_data.get(key, 0) *
\* multiplier for every food of matched_foods; the numbers of the table are
\* tenths
AddFoods(matched_foods, multiplier) ==
    [key \in NutritionKeys |->
        FracMul(Frac(sum([i \in DOMAIN matched_foods |->
                            FoodData(matched_foods[i])[key].num]), 10),
                multiplier)]

\* The quantity multiplier with the rule of 3/three tested before the rule of
\* half/0.5
QuantityMultiplier_three_first(quantity) ==
    LET qty_lower == lower(quantity)
    IN  IF \/ contains(qty_lower, <<"2">>)
           \/ contains(qty_lower, <<"t", "w", "o">>)
           \/ contains(qty_lower, <<"d", "o", "u", "b", "l", "e">>)
        THEN Frac(2, 1)
        ELSE IF \/ contains(qty_lower, <<"3">>)
                \/ contains(qty_lower, <<"t", "h", "r", "e", "e">>)
        THEN Frac(3, 1)
        ELSE IF \/ contains(qty_lower, <<"h", "a", "l", "f">>)
                \/ contains(qty_lower, <<"0", ".", "5">>)
        THEN Frac(1, 2)
        ELSE IF contains(qty_lower, <<"l", "a", "r", "g", "e">>) THEN Frac(3, 2)
        ELSE IF contains(qty_lower, <<"s", "m", "a", "l", "l">>) THEN Frac(7, 10)
        ELSE Frac(1, 1)

\* The quantity multiplier: the first rule that the quantity text matches
QuantityMultiplier(quantity) ==
    LET qty_lower == lower(quantity)
    IN  IF \/ contains(qty_lower, <<"2">>)
           \/ contains(qty_lower, <<"t", "w", "o">>)
           \/ contains(qty_lower, <<"d", "o", "u", "b", "l", "e">>)
        THEN Frac(2, 1)
        ELSE IF \/ contains(qty_lower, <<"h", "a", "l", "f">>)
                \/ contains(qty_lower, <<"0", ".", "5">>)
        THEN Frac(1, 2)
        ELSE IF \/ contains(qty_lower, <<"3">>)
                \/ contains(qty_lower, <<"t", "h", "r", "e", "e">>)
        THEN Frac(3, 1)
        ELSE IF contains(qty_lower, <<"l", "a", "r", "g", "e">>) THEN Frac(3, 2)
        ELSE IF contains(qty_lower, <<"s", "m", "a", "l", "l">>) THEN Frac(7, 10)
        ELSE Frac(1, 1)

\* The loop over the words of the description: the words that, stripped of
\* punctuation, are keys of the table, in their order, repeated when repeated
WordMatches(words) ==
    SelectSeq([i \in DOMAIN words |-> strip(words[i], {",", ".", "!", "?"})],
              InFoodDatabase)

\* The loop over the keys of the table: matched_foods followed by the keys
\* that occur in the description and are not matched yet, in the order of
\* the table
SubstringMatches(food_description, matched_foods) ==
    matched_foods \o
    SelectSeq([k \in DOMAIN FOOD_DATABASE |-> FOOD_DATABASE[k].name],
              LAMBDA food_name :
                /\ contains(food_description, food_name)
                /\ \A i \in DOMAIN matched_foods : matched_foods[i] # food_name)

\* matched_foods after both loops
MatchedFoods(food_description) ==
    SubstringMatches(food_description, WordMatches(split(food_description)))

\* total_nutrition after both loops, and the estimate of the "if not
\* matched_foods" branch
SumNutrition(matched_foods, multiplier) ==
    IF matched_foods = <<>>
    THEN [calories |-> FracMul(Frac(200, 1), multiplier),
          carbs |-> FracMul(Frac(25, 1), multiplier),
          sugar |-> FracMul(Frac(5, 1), multiplier),
          fiber |-> FracMul(Frac(2, 1), multiplier),
          protein |-> FracMul(Frac(8, 1), multiplier),
          gi |-> Frac(50, 1)]
    ELSE AddFoods(matched_foods, multiplier)

\* total_nutrition["gi"] /= len(matched_foods), if more than one food matched
AverageGi(total_nutrition, matched_foods) ==
    IF Len(matched_foods) > 1
    THEN [total_nutrition EXCEPT !.gi = FracDiv(@, Frac(Len(matched_foods), 1))]
    ELSE total_nutrition

\* matched_foods = ["unknown food"], if nothing matched
MatchedOrUnknown(matched_foods) ==
    IF matched_foods = <<>>
    THEN << <<"u", "n", "k", "n", "o", "w", "n", " ", "f", "o", "o", "d">> >>
    ELSE matched_foods

\* The dict analyze_food returns
FoodReport(food_description, quantity, matched_foods, total_nutrition) ==
    [food_description |-> food_description,
     quantity |-> quantity,
     matched_foods |-> matched_foods,
     nutrition |-> [calories |-> Round1(total_nutrition.calories),
                    carbohydrates_g |-> Round1(total_nutrition.carbs),
                    sugar_g |-> Round1(total_nutrition.sugar),
                    fiber_g |-> Round1(total_nutrition.fiber),
                    protein_g |-> Round1(total_nutrition.protein),
                    glycemic_index |-> Round0(total_nutrition.gi)],
     glucose_spike_risk |-> calculate_glucose_spike_risk(total_nutrition),
     meal_suitability |-> assess_meal_suitability(total_nutrition)]

\* analyze_food after the loops have matched the foods
AnalyzeMatches(food_description, quantity, multiplier, matched_foods) ==
    FoodReport(food_description, quantity, MatchedOrUnknown(matched_foods),
               AverageGi(SumNutrition(matched_foods, multiplier), matched_foods))

\* analyze_food(food_description, quantity)
analyze_food(food_description_in, quantity) ==
    LET food_description == strip(lower(food_description_in), whitespace)
    IN  AnalyzeMatches(food_description, quantity, QuantityMultiplier(quantity),
                       MatchedFoods(food_description))

high_sodium_foods == <<
    <<"p", "i", "c", "k", "l", "e">>,
    <<"p", "a", "p", "a", "d">>,
    <<"c", "h", "i", "p", "s">>,
    <<"f", "r", "i", "e", "s">>,
    <<"p", "i", "z", "z", "a">>,
    <<"b", "u", "r", "g", "e", "r">>,
    <<"s", "a", "m", "o", "s", "a">>,
    <<"p", "a", "k", "o", "r", "a">>,
    <<"c", "h", "a", "a", "t">>,
    <<"n", "a", "m", "k", "e", "e", "n">>,
    <<"p", "r", "o", "c", "e", "s", "s", "e", "d">>,
    <<"c", "a", "n", "n", "e", "d">>,
    <<"i", "n", "s", "t", "a", "n", "t">>
    >>

medium_sodium_foods == <<
    <<"b", "r", "e", "a", "d">>,
    <<"c", "h", "e", "e", "s", "e">>,
    <<"r", "o", "t", "i">>,
    <<"p", "a", "r", "a", "t", "h", "a">>,
    <<"p", "u", "r", "i">>,
    <<"b", "i", "r", "y", "a", "n", "i">>
    >>

low_sodium_foods == <<
    <<"s", "a", "l", "a", "d">>,
    <<"f", "r", "u", "i", "t">>,
    <<"v", "e", "g", "e", "t", "a", "b", "l", "e", "s">>,
    <<"d", "a", "l">>,
    <<"r", "i", "c", "e">>,
    <<"o", "a", "t", "s">>,
    <<"m", "i", "l", "k">>,
    <<"c", "u", "r", "d">>,
    <<"y", "o", "g", "u", "r", "t">>
    >>

\* a keyword of the list occurs in the text
AnyKeyword(keywords, text) ==
    \E k \in DOMAIN keywords : contains(text, keywords[k])

\* analyze_food_hypertension_static, given the base_analysis of analyze_food
HypertensionReport(food_description, quantity, base_analysis) ==
    LET food_lower == lower(food_description)
        \* the three keyword loops run one after the other, each overwriting
        after_high == IF AnyKeyword(high_sodium_foods, food_lower) THEN 600 ELSE 200
        after_medium == IF AnyKeyword(medium_sodium_foods, food_lower) THEN 350
                        ELSE after_high
        sodium_estimate == IF AnyKeyword(low_sodium_foods, food_lower) THEN 100
                           ELSE after_medium
        qty_lower == lower(quantity)
        multiplier ==
            IF \/ contains(qty_lower, <<"2">>)
               \/ contains(qty_lower, <<"l", "a", "r", "g", "e">>)
            THEN Frac(3, 2)
            ELSE IF \/ contains(qty_lower, <<"s", "m", "a", "l", "l">>)
                    \/ contains(qty_lower, <<"h", "a", "l", "f">>)
            THEN Frac(6, 10)
            ELSE Frac(1, 1)
        sodium_mg == int(FracMul(Frac(sodium_estimate, 1), multiplier))
        potassium_mg ==
            int(FracAdd(FracMul(base_analysis.nutrition.fiber_g, Frac(50, 1)),
                        FracMul(base_analysis.nutrition.protein_g, Frac(20, 1))))
        dash_compliant == sodium_mg < 400
    IN  [food_description |-> food_description,
         quantity |-> quantity,
         nutrition |->
            [calories |-> base_analysis.nutrition.calories,
             sodium_mg |-> sodium_mg,
             potassium_mg |-> potassium_mg,
             saturated_fat_g |->
                Round1(FracMul(base_analysis.nutrition.calories, Frac(2, 100))),
             fiber_g |-> base_analysis.nutrition.fiber_g,
             protein_g |-> base_analysis.nutrition.protein_g],
         dash_compliant |-> dash_compliant,
         dash_score |-> IF dash_compliant THEN "Good"
                        ELSE IF sodium_mg < 600 THEN "Moderate" ELSE "Poor",
         positives |-> <<IF FracGT(base_analysis.nutrition.fiber_g, Frac(2, 1))
                         THEN "Contains fiber" ELSE "Moderate calories">>,
         improvements |-> IF dash_compliant THEN <<>>
                          ELSE <<"Look for low-sodium alternatives",
                                 "Add more potassium-rich vegetables">>,
         daily_sodium |-> sodium_mg,
         ai_generated |-> FALSE]

\* analyze_food_hypertension_static(food_description, quantity)
analyze_food_hypertension_static(food_description, quantity) ==
    HypertensionReport(food_description, quantity,
                       analyze_food(food_description, quantity))

\* ------------------------------------------------------------------------
\* The store as the application starts: empty tables
\* ------------------------------------------------------------------------

MedIds == 1..MaxMeds

InitStore ==
    /\ today = 0
    /\ daily_logs = <<>>
    /\ medications = [m \in MedIds |-> "absent"]
    /\ medication_logs = <<>>
    /\ strava_activities = <<>>
    /\ hba1c_logs = <<>>

\* ------------------------------------------------------------------------
\* main.py: the alert thresholds of the daily logs
\* ------------------------------------------------------------------------

\* Python values whose type the code depends on: a dict is a record; None and
\* the values that are no dict are records with the one field pytype.
None == [pytype |-> "NoneType"]

\* isinstance(v, dict)
IsDict(v) == "pytype" \notin DOMAIN v

\* A str where the code returns Optional[str]
Str(text) == [pytype |-> "str", text |-> text]

GLUCOSE_THRESHOLDS ==
    [low |-> 70, high |-> 180, critical_low |-> 54, critical_high |-> 250]

\* check_glucose_threshold(value); the texts without their warning sign
check_glucose_threshold(value) ==
    IF value <= GLUCOSE_THRESHOLDS.critical_low
    THEN Str("CRITICAL: Severe hypoglycemia! Consume fast-acting glucose immediately and contact your healthcare provider.")
    ELSE IF value >= GLUCOSE_THRESHOLDS.critical_high
    THEN Str("CRITICAL: Very high blood sugar! Consider contacting your healthcare provider.")
    ELSE IF value <= GLUCOSE_THRESHOLDS.low
    THEN Str("Low blood sugar detected. Consider having a small snack.")
    ELSE IF value >= GLUCOSE_THRESHOLDS.high
    THEN Str("Elevated blood sugar. Monitor closely and follow your care plan.")
    ELSE None

\* ------------------------------------------------------------------------
\* SpecCore: the pure functions of the core, each applied once to inputs drawn
\* from bounded sets that straddle every threshold of the code
\* ------------------------------------------------------------------------

\* All sequences over S of length at most n
SeqsUpTo(S, n) == UNION {[1..k -> S] : k \in 0..n}

SystolicValues == {-10, 0, 119, 120, 129, 130, 139, 140, 179, 180, 300}

DiastolicValues == {-10, 0, 70, 79, 80, 89, 90, 119, 120, 200}

GlucoseValues ==
    {-10, 0, 53, 54, 69, 70, 79, 80, 81, 129, 130, 131, 179, 180, 181, 249, 250, 100000}

ReadingTypes == {"fasting", "after_meal", "random"}

\* Readings for the trend: 100 -> 130 is the documented rise; 300 -> 312 rises
\* by more than 10 units but by less than 5 percent; 0 makes a mean that is
\* not positive.
TrendValues == {0, 100, 130, 300, 312}

BpReadings ==
    {[value |-> 120, value_secondary |-> 70],
     [value |-> 126, value_secondary |-> 85],
     [value |-> 140, value_secondary |-> 95]}

FoodCalories == {-50, 0, 250}

ActivityMinutes == {-30, 0, 1, 37, 75, 112, 149, 150}

StravaStats ==
    {[total_minutes |-> 0, activity_count |-> 0],
     [total_minutes |-> 1, activity_count |-> 1],
     [total_minutes |-> 38, activity_count |-> 1],
     [total_minutes |-> 200, activity_count |-> 2]}

MedLogRows ==
    {[taken_at |-> "CURRENT_TIMESTAMP", skipped |-> FALSE],
     [taken_at |-> "NULL", skipped |-> TRUE]}

\* Meal descriptions: an unknown food, several foods, a key inside another
\* key, punctuation, capitals and padding
FoodDescriptions ==
    {\* "2 idly"
     <<"2", " ", "i", "d", "l", "y">>,
     \* "Rice and dal"
     <<"R", "i", "c", "e", " ", "a", "n", "d", " ", "d", "a", "l">>,
     \* "eggs"
     <<"e", "g", "g", "s">>,
     \* "white rice"
     <<"w", "h", "i", "t", "e", " ", "r", "i", "c", "e">>,
     \* "Biryani, dal!"
     <<"B", "i", "r", "y", "a", "n", "i", ",", " ", "d", "a", "l", "!">>,
     \* " dal "
     <<" ", "d", "a", "l", " ">>,
     \* "biscuits"
     <<"b", "i", "s", "c", "u", "i", "t", "s">>,
     \* "pickle dal"
     <<"p", "i", "c", "k", "l", "e", " ", "d", "a", "l">>,
     \* "papad"
     <<"p", "a", "p", "a", "d">>}

\* A count before a known food and a food named twice, analysed with the
\* default quantity
CountedMeals ==
    {[food_description |-> <<"2", " ", "i", "d", "l", "i">>,
      quantity |-> <<"1", " ", "s", "e", "r", "v", "i", "n", "g">>],
     \* "rice rice"
     [food_description |-> <<"r", "i", "c", "e", " ", "r", "i", "c", "e">>,
      quantity |-> <<"1", " ", "s", "e", "r", "v", "i", "n", "g">>]}

\* Quantity texts: one for every rule of the multiplier, and texts that match
\* several rules
Quantities ==
    {\* "1 serving"
     <<"1", " ", "s", "e", "r", "v", "i", "n", "g">>,
     \* "2 servings"
     <<"2", " ", "s", "e", "r", "v", "i", "n", "g", "s">>,
     \* "half"
     <<"h", "a", "l", "f">>,
     \* "3 pieces"
     <<"3", " ", "p", "i", "e", "c", "e", "s">>,
     \* "Large"
     <<"L", "a", "r", "g", "e">>,
     \* "small"
     <<"s", "m", "a", "l", "l">>,
     \* "half of 3"
     <<"h", "a", "l", "f", " ", "o", "f", " ", "3">>,
     \* "2 small"
     <<"2", " ", "s", "m", "a", "l", "l">>,
     \* "Large three"
     <<"L", "a", "r", "g", "e", " ", "t", "h", "r", "e", "e">>,
     \* "small large"
     <<"s", "m", "a", "l", "l", " ", "l", "a", "r", "g", "e">>,
     \* "Double 0.5"
     <<"D", "o", "u", "b", "l", "e", " ", "0", ".", "5">>}

LogsOf(values) == [i \in 1..Len(values) |-> [value |-> values[i]]]

MedsOf(k) == [i \in 1..k |-> [id |-> i, is_active |-> TRUE]]

\* Nutrition totals at, just below and just above every threshold of the risk
\* score; fiber above carbs included
SpikeNutritions ==
    {[carbs |-> Dec(carbs, 0), sugar |-> Dec(sugar, 0), fiber |-> fiber,
      gi |-> Dec(gi, 0)] :
        carbs \in {0, 30, 32, 46, 48, 100}, sugar \in {0, 8, 9, 15, 16},
        fiber \in {Dec(0, 0), Dec(1, 0), Dec(1, 9), Dec(2, 0), Dec(50, 0)},
        gi \in {0, 55, 56, 70, 71}}

CoreCalls ==
    {[fn |-> "calculate_glucose_spike_risk", nutrition |-> nutrition] :
        nutrition \in SpikeNutritions}
    \cup
    {[fn |-> "get_bp_status", systolic |-> systolic, diastolic |-> diastolic] :
        systolic \in SystolicValues, diastolic \in DiastolicValues}
    \cup
    {[fn |-> "get_glucose_status", value |-> value, reading_type |-> reading_type] :
        value \in GlucoseValues, reading_type \in ReadingTypes}
    \cup
    {[fn |-> "check_glucose_threshold", value |-> value] : value \in GlucoseValues}
    \cup
    {[fn |-> "categorize_bp", systolic |-> systolic, diastolic |-> diastolic] :
        systolic \in SystolicValues, diastolic \in DiastolicValues}
    \cup
    {[fn |-> fn, values |-> values] :
        fn \in {"calculate_trend_direction", "analyze_glucose_week"},
        values \in SeqsUpTo(TrendValues, MaxLen)}
    \cup
    {[fn |-> "analyze_bp_week", bp_logs |-> bp_logs] :
        bp_logs \in SeqsUpTo(BpReadings, MaxLen)}
    \cup
    {[fn |-> "calculate_diet_quality", food_logs |-> LogsOf([i \in 1..n |-> calories])] :
        n \in 0..MaxMeals, calories \in FoodCalories}
    \cup
    {[fn |-> "calculate_exercise_consistency_with_strava",
      activity_logs |-> LogsOf(minutes), strava_stats |-> strava_stats] :
        minutes \in SeqsUpTo(ActivityMinutes, MaxActivityLogs),
        strava_stats \in StravaStats}
    \cup
    {[fn |-> "calculate_exercise_consistency", activity_logs |-> LogsOf(minutes)] :
        minutes \in SeqsUpTo(ActivityMinutes, MaxActivityLogs)}
    \cup
    {[fn |-> "calculate_medication_adherence",
      medications |-> MedsOf(k), med_logs |-> med_logs] :
        k \in 0..MaxMeds, med_logs \in SeqsUpTo(MedLogRows, MaxMedLogs)}
    \cup
    {[fn |-> fn, food_description |-> food_description, quantity |-> quantity] :
        fn \in {"analyze_food", "analyze_food_hypertension_static"},
        food_description \in FoodDescriptions, quantity \in Quantities}
    \cup
    {[fn |-> "analyze_food", food_description |-> meal.food_description,
      quantity |-> meal.quantity] : meal \in CountedMeals}

InitCore ==
    /\ InitStore
    /\ pc = "call"
    /\ request \in CoreCalls
    /\ response = [pending |-> TRUE]

\* The call of request.fn returns ret.
Return(fn, ret) ==
    /\ pc = "call"
    /\ request.fn = fn
    /\ response' = ret
    /\ pc' = "return"
    /\ UNCHANGED <<store, request>>

Call_get_bp_status ==
    Return("get_bp_status", get_bp_status(request.systolic, request.diastolic))

Call_get_glucose_status ==
    Return("get_glucose_status", get_glucose_status(request.value, request.reading_type))

Call_check_glucose_threshold ==
    Return("check_glucose_threshold", check_glucose_threshold(request.value))

Call_calculate_trend_direction ==
    Return("calculate_trend_direction",
           [trend |-> calculate_trend_direction(request.values)])

Call_analyze_glucose_week ==
    Return("analyze_glucose_week", analyze_glucose_week(LogsOf(request.values)))

Call_analyze_bp_week ==
    Return("analyze_bp_week", analyze_bp_week(request.bp_logs))

Call_calculate_diet_quality ==
    Return("calculate_diet_quality", calculate_diet_quality(request.food_logs))

Call_calculate_exercise_consistency_with_strava ==
    Return("calculate_exercise_consistency_with_strava",
           calculate_exercise_consistency_with_strava(request.activity_logs,
                                                      request.strava_stats))

Call_calculate_exercise_consistency ==
    Return("calculate_exercise_consistency",
           calculate_exercise_consistency(request.activity_logs))

Call_calculate_medication_adherence ==
    Return("calculate_medication_adherence",
           calculate_medication_adherence(request.medications, request.med_logs))

Call_analyze_food ==
    Return("analyze_food", analyze_food(request.food_description, request.quantity))

Call_analyze_food_hypertension_static ==
    Return("analyze_food_hypertension_static",
           analyze_food_hypertension_static(request.food_description, request.quantity))

Call_calculate_glucose_spike_risk ==
    Return("calculate_glucose_spike_risk",
           calculate_glucose_spike_risk(request.nutrition))

Call_categorize_bp ==
    Return("categorize_bp",
           [category |-> categorize_bp(FracOfInt(request.systolic),
                                       FracOfInt(request.diastolic))])

NextCore ==
    \/ Call_categorize_bp
    \/ Call_calculate_glucose_spike_risk
    \/ Call_get_bp_status
    \/ Call_get_glucose_status
    \/ Call_check_glucose_threshold
    \/ Call_calculate_trend_direction
    \/ Call_analyze_glucose_week
    \/ Call_analyze_bp_week
    \/ Call_calculate_diet_quality
    \/ Call_calculate_exercise_consistency_with_strava
    \/ Call_calculate_exercise_consistency
    \/ Call_calculate_medication_adherence
    \/ Call_analyze_food
    \/ Call_analyze_food_hypertension_static

SpecCore == InitCore /\ [][NextCore]_vars

\* The call of a core function has returned.
Returned(fn) == pc = "return" /\ request.fn = fn


\* ------------------------------------------------------------------------
\* ai_analyzer.py: food analysis by the Gemini service, with its fallback
\* ------------------------------------------------------------------------

\* What the Gemini client does with a food prompt.  kind "no_client": no API
\* key, no client.  kind "error": generate_content raises (network failure,
\* timeout, rate limit).  kind "text": it answers, and json is what
\* json.loads makes of the answer once its code fence is removed.
GeminiOutcomes ==
    {[kind |-> "no_client"],
     [kind |-> "error"],
     \* text that is no JSON
     [kind |-> "text", json |-> [pytype |-> "JSONDecodeError"]],
     \* JSON that is no object: [1, 2]
     [kind |-> "text", json |-> [pytype |-> "list"]],
     \* {"note": "n/a"}
     [kind |-> "text", json |-> [note |-> "n/a"]],
     \* {"nutrition": 42}
     [kind |-> "text", json |-> [nutrition |-> [pytype |-> "int"]]],
     \* {"nutrition": {"sodium_mg": 300}}
     [kind |-> "text", json |-> [nutrition |-> [sodium_mg |-> 300]]],
     \* the structure the prompt asks for
     [kind |-> "text",
      json |-> [nutrition |-> [calories |-> Frac(160, 1), sodium_mg |-> 300]]]}

\* analyze_food_with_gemini(food_description, quantity, condition)
analyze_food_with_gemini(gemini) ==
    IF gemini.kind = "no_client" THEN None
    ELSE IF gemini.kind = "error" THEN None
    ELSE LET result == gemini.json
         IN  IF ~IsDict(result)
             \* json.loads raises JSONDecodeError, or the item assignment
             \* result["ai_generated"] = True raises TypeError
             THEN None
             ELSE [ai_generated |-> TRUE] @@ result

\* analyze_food_ai(food_description, quantity)
analyze_food_ai(food_description, quantity, gemini) ==
    LET ai_result == analyze_food_with_gemini(gemini)
    IN  IF ai_result # None
        THEN [food_description |-> food_description, quantity |-> quantity]
                @@ ai_result
        ELSE analyze_food(food_description, quantity)

\* analyze_food_hypertension_ai(food_description, quantity); the result
\* [raised |-> e] stands for the exception e leaving the function
analyze_food_hypertension_ai(food_description, quantity, gemini) ==
    LET ai_result == analyze_food_with_gemini(gemini)
        nutrition == IF "nutrition" \in DOMAIN ai_result THEN ai_result.nutrition
                     ELSE [default |-> TRUE]
    IN  IF ai_result # None
        THEN IF ~IsDict(nutrition)
             \* ai_result.get("nutrition", {}).get("sodium_mg", 0)
             THEN [raised |-> "AttributeError"]
             ELSE [food_description |-> food_description, quantity |-> quantity,
                   daily_sodium |-> IF "sodium_mg" \in DOMAIN nutrition
                                    THEN nutrition.sodium_mg ELSE 0]
                    @@ ai_result
        ELSE analyze_food_hypertension_static(food_description, quantity)

\* ------------------------------------------------------------------------
\* database.py: the log store of the one user of the model
\* ------------------------------------------------------------------------

\* rows[::-1]
Reverse(rows) == [i \in 1..Len(rows) |-> rows[Len(rows) + 1 - i]]

\* save_daily_log(user_id, log_type, value, unit, value_secondary, ...): the
\* table after the INSERT; log_date defaults to date('now')
save_daily_log(log_type, value, value_secondary) ==
    Append(daily_logs, [log_type |-> log_type, value |-> value,
                        value_secondary |-> value_secondary, log_date |-> today])

\* get_daily_logs(user_id, log_type, days): ORDER BY logged_at DESC
get_daily_logs(log_type, days) ==
    Reverse(SelectSeq(daily_logs,
                      LAMBDA row : /\ row.log_type = log_type
                                   /\ row.log_date >= today - days))

\* get_medications(user_id): the active medications
get_medications ==
    SelectSeq([m \in MedIds |-> [id |-> m, is_active |-> medications[m] = "active"]],
              LAMBDA med : med.is_active)

\* log_medication_intake(user_id, medication_id, scheduled_time, taken): the
\* table after the INSERT
log_medication_intake(medication_id, taken) ==
    Append(medication_logs,
           [medication_id |-> medication_id,
            taken_at |-> IF taken THEN "CURRENT_TIMESTAMP" ELSE "NULL",
            skipped |-> ~taken,
            log_date |-> today])

\* get_medication_logs_today(user_id): the logs of today, joined with the
\* medications table
get_medication_logs_today ==
    SelectSeq(medication_logs,
              LAMBDA ml : /\ medications[ml.medication_id] # "absent"
                          /\ ml.log_date = today)

\* get_strava_activities(user_id, days)
get_strava_activities(days) ==
    Reverse(SelectSeq(strava_activities,
                      LAMBDA activity : activity.start_date >= today - days))

\* get_strava_weekly_stats(user_id)
get_strava_weekly_stats ==
    LET rows == get_strava_activities(7)
        total_seconds == sum(Column(rows, "moving_time"))
    IN  [total_minutes |-> Round0(Frac(total_seconds, 60)),
         activity_count |-> Len(rows)]

\* ------------------------------------------------------------------------
\* ai_analyzer.py: the weekly summary
\* ------------------------------------------------------------------------

\* What generate_ai_weekly_insight may return: the empty summary when the
\* service is not available or fails, else the answer of the service
AiWeeklyInsights ==
    {[suggestions |-> <<>>, insight |-> ""],
     [suggestions |-> <<"Add a 10-minute walk after meals">>,
      insight |-> "Your readings are steadier on the days you exercise"]}

\* generate_weekly_summary keeping the previous summary as hidden state: a call
\* that follows a call counts the glucose readings of both
generate_weekly_summary_drift(ai_summary) ==
    LET glucose_logs == get_daily_logs("glucose", 7)
        bp_logs == get_daily_logs("bp", 7)
        food_logs == get_daily_logs("food", 7)
        activity_logs == get_daily_logs("activity", 7)
        strava_week == get_strava_activities(7)
        strava_stats == get_strava_weekly_stats
        meds == get_medications
        med_logs == get_medication_logs_today
    IN  [week_of |-> today,
         summary |->
            [diet |-> calculate_diet_quality(food_logs),
             exercise |->
                calculate_exercise_consistency_with_strava(activity_logs, strava_stats),
             medication_adherence |-> calculate_medication_adherence(meds, med_logs),
             blood_sugar |->
                IF request.fn = "get_weekly_summary"
                THEN analyze_glucose_week(glucose_logs \o glucose_logs)
                ELSE analyze_glucose_week(glucose_logs),
             blood_pressure |-> analyze_bp_week(bp_logs),
             strava |-> [connected |-> Len(strava_week) > 0
                                        \/ strava_stats.activity_count > 0,
                         activities |-> strava_stats.activity_count,
                         total_minutes |-> strava_stats.total_minutes]],
         ai_suggestions |-> ai_summary.suggestions,
         ai_insight |-> ai_summary.insight]

\* generate_weekly_summary(user_id), given the answer of the insight service
generate_weekly_summary(ai_summary) ==
    LET glucose_logs == get_daily_logs("glucose", 7)
        bp_logs == get_daily_logs("bp", 7)
        food_logs == get_daily_logs("food", 7)
        activity_logs == get_daily_logs("activity", 7)
        strava_week == get_strava_activities(7)
        strava_stats == get_strava_weekly_stats
        meds == get_medications
        med_logs == get_medication_logs_today
    IN  [week_of |-> today,
         summary |->
            [diet |-> calculate_diet_quality(food_logs),
             exercise |->
                calculate_exercise_consistency_with_strava(activity_logs, strava_stats),
             medication_adherence |-> calculate_medication_adherence(meds, med_logs),
             blood_sugar |-> analyze_glucose_week(glucose_logs),
             blood_pressure |-> analyze_bp_week(bp_logs),
             strava |-> [connected |-> Len(strava_week) > 0
                                        \/ strava_stats.activity_count > 0,
                         activities |-> strava_stats.activity_count,
                         total_minutes |-> strava_stats.total_minutes]],
         ai_suggestions |-> ai_summary.suggestions,
         ai_insight |-> ai_summary.insight]

\* ------------------------------------------------------------------------
\* database.py and trend_analyzer.py: the 7-day trend reports
\* ------------------------------------------------------------------------

\* get_weekly_stats(user_id, log_type): AVG, MIN, MAX and COUNT over the rows
\* of the last 7 days; the aggregates of no row are NULL
get_weekly_stats(log_type) ==
    LET rows == SelectSeq(daily_logs,
                          LAMBDA row : /\ row.log_type = log_type
                                       /\ row.log_date >= today - 7)
        \* AVG leaves the NULLs out; the bp rows, and only they, carry a
        \* value_secondary
        secondary == IF log_type = "bp" THEN Column(rows, "value_secondary")
                     ELSE <<>>
    IN  [avg_value |-> IF rows = <<>> THEN None
                       ELSE Frac(sum(Column(rows, "value")), Len(rows)),
         min_value |-> IF rows = <<>> THEN None ELSE MinOf(Column(rows, "value")),
         max_value |-> IF rows = <<>> THEN None ELSE MaxOf(Column(rows, "value")),
         count |-> Len(rows),
         avg_secondary |-> IF secondary = <<>> THEN None
                           ELSE Frac(sum(secondary), Len(secondary))]

GLUCOSE_TARGETS ==
    [fasting |-> [min |-> 80, max |-> 130],
     after_meal |-> [min |-> 80, max |-> 180]]

\* "x if avg else None": a float is false when it is 0.0
OrNone(avg, x) == IF avg.num # 0 THEN x ELSE None

\* analyze_glucose_trends(user_id).  A text with a formatted number in it is
\* the tuple of its pieces.
analyze_glucose_trends ==
    LET logs == get_daily_logs("glucose", 7)
        stats == get_weekly_stats("glucose")
    IN  IF logs = <<>> \/ stats.count = 0
        THEN [status |-> "insufficient_data",
              message |-> "Not enough glucose readings to analyze trends. Log at least 3 readings.",
              recommendations |-> <<"Log your fasting glucose daily",
                                    "Log after-meal readings">>]
        ELSE
        LET values == Column(logs, "value")
            trend_direction == calculate_trend_direction(values)
            avg_value == stats.avg_value
            above == FracGT(avg_value, FracOfInt(GLUCOSE_TARGETS.fasting.max))
            below == FracLT(avg_value, FracOfInt(GLUCOSE_TARGETS.fasting.min))
            avg_text(tail) == <<"Your average glucose (", Round0(avg_value), tail>>
        IN  [status |-> "analyzed",
             period |-> "7 days",
             stats |-> [average |-> OrNone(avg_value, Round1(avg_value)),
                        min |-> stats.min_value,
                        max |-> stats.max_value,
                        readings_count |-> stats.count],
             trend_direction |-> trend_direction,
             in_target_range |-> ~below /\ ~above,
             insights |->
                <<IF above THEN avg_text(" mg/dL) is above target range")
                  ELSE IF below THEN avg_text(" mg/dL) is below target range")
                  ELSE avg_text(" mg/dL) is within target range!")>>
                \o (IF trend_direction = "increasing"
                    THEN <<"Your glucose levels show an increasing trend this week">>
                    ELSE IF trend_direction = "decreasing"
                    THEN <<"Your glucose levels show a decreasing trend - good progress!">>
                    ELSE <<>>),
             recommendations |->
                (IF above THEN <<"Consider reducing carbohydrate intake",
                                 "Increase physical activity duration">>
                 ELSE IF below THEN <<"Monitor for hypoglycemia symptoms",
                                      "Consider adjusting meal timing">>
                 ELSE <<>>)
                \o (IF trend_direction = "increasing"
                    THEN <<"Review recent dietary changes">> ELSE <<>>),
             alerts |->
                IF above /\ FracGT(avg_value, FracOfInt(200))
                THEN <<"Persistently high glucose - consult your healthcare provider">>
                ELSE <<>>]

\* analyze_bp_trends(user_id); every bp row of the store has its diastolic
\* value
analyze_bp_trends ==
    LET logs == get_daily_logs("bp", 7)
        stats == get_weekly_stats("bp")
    IN  IF logs = <<>> \/ stats.count = 0
        THEN [status |-> "insufficient_data",
              message |-> "Not enough BP readings to analyze trends. Log at least 3 readings.",
              recommendations |-> <<"Log your blood pressure morning and evening">>]
        ELSE
        LET avg_systolic == stats.avg_value
            avg_diastolic == stats.avg_secondary
            bp_category == categorize_bp(avg_systolic, avg_diastolic)
            systolic_trend == calculate_trend_direction(Column(logs, "value"))
            avg_text(tail) == <<"Your average BP (", Round0(avg_systolic), "/",
                                Round0(avg_diastolic), tail>>
        IN  [status |-> "analyzed",
             period |-> "7 days",
             stats |-> [avg_systolic |-> OrNone(avg_systolic, Round0(avg_systolic)),
                        avg_diastolic |-> OrNone(avg_diastolic, Round0(avg_diastolic)),
                        min |-> stats.min_value,
                        max |-> stats.max_value,
                        readings_count |-> stats.count],
             bp_category |-> bp_category,
             trend_direction |-> systolic_trend,
             insights |->
                <<CASE bp_category = "normal" -> avg_text(") is in the normal range!")
                    [] bp_category = "elevated" -> avg_text(") is elevated")
                    [] bp_category = "stage1" ->
                            avg_text(") indicates Stage 1 hypertension")
                    [] bp_category = "stage2" ->
                            avg_text(") indicates Stage 2 hypertension")>>
                \o (IF systolic_trend = "increasing"
                    THEN <<"Your systolic pressure shows an increasing trend">>
                    ELSE IF systolic_trend = "decreasing"
                    THEN <<"Your blood pressure is trending downward - great progress!">>
                    ELSE <<>>),
             recommendations |->
                (CASE bp_category = "normal" -> <<>>
                   [] bp_category = "elevated" ->
                        <<"Reduce sodium intake to less than 2,300mg/day",
                          "Increase physical activity to 150 minutes/week">>
                   [] bp_category = "stage1" ->
                        <<"Follow DASH diet principles", "Limit alcohol and caffeine">>
                   [] bp_category = "stage2" -> <<"Monitor BP twice daily">>)
                \o (IF systolic_trend = "increasing"
                    THEN <<"Review stress levels and sleep quality">> ELSE <<>>),
             alerts |->
                CASE bp_category = "stage1" ->
                        <<"Discuss medication options with your healthcare provider">>
                  [] bp_category = "stage2" ->
                        <<"Contact your healthcare provider about blood pressure management">>
                  [] OTHER -> <<>>]

\* The adjustments generate_weekly_adjustments appends for diabetes
GlucoseAdjustments(glucose_trends) ==
    IF glucose_trends.status = "analyzed" /\ ~glucose_trends.in_target_range
    THEN LET average == glucose_trends.stats.average
         IN  IF average # None /\ FracGT(average, FracOfInt(180))
             THEN <<[type |-> "diet",
                     action |-> "Add an extra vegetable serving to lunch and dinner",
                     reason |-> "High average glucose levels detected"],
                    [type |-> "activity",
                     action |-> "Increase walking duration by 10 minutes",
                     reason |-> "Physical activity helps regulate blood sugar"]>>
             ELSE IF average # None /\ FracLT(average, FracOfInt(80))
             THEN <<[type |-> "diet",
                     action |-> "Add a small snack between meals",
                     reason |-> "Low average glucose levels detected"]>>
             ELSE <<>>
    ELSE <<>>

\* The adjustments generate_weekly_adjustments appends for hypertension
BpAdjustments(bp_trends) ==
    IF bp_trends.status = "analyzed" /\ bp_trends.bp_category \in {"stage1", "stage2"}
    THEN <<[type |-> "diet",
            action |-> "Reduce sodium to less than 1,500mg daily",
            reason |-> "Elevated blood pressure detected"],
           [type |-> "wellness",
            action |-> "Add 10-minute evening relaxation session",
            reason |-> "Stress management helps lower blood pressure"]>>
    ELSE <<>>

\* generate_weekly_adjustments(user_id, diseases)
generate_weekly_adjustments(diseases) ==
    LET adjustments ==
            (IF "diabetes" \in diseases THEN GlucoseAdjustments(analyze_glucose_trends)
             ELSE <<>>)
            \o (IF "hypertension" \in diseases THEN BpAdjustments(analyze_bp_trends)
                ELSE <<>>)
    IN  [week_of |-> today,
         adjustments |-> adjustments,
         adjustment_count |-> Len(adjustments),
         message |-> IF adjustments # <<>>
                     THEN "Your care plan has been updated based on this week's data"
                     ELSE "No adjustments needed - keep up the good work!"]

\* ------------------------------------------------------------------------
\* main.py: the HTTP handlers.  Every handler is one step: it reads the
\* request, changes the store and answers.
\* ------------------------------------------------------------------------

NoRequest == [fn |-> "none"]

Init ==
    /\ InitStore
    /\ pc = "idle"
    /\ request = NoRequest
    /\ response = None

RoomInStore ==
    Len(daily_logs) + Len(medication_logs) + Len(strava_activities)
        + Len(hba1c_logs) < MaxRows

\* Inputs of the handlers
GlucoseLogs ==
    {[value |-> 100, reading_type |-> "fasting"],
     [value |-> 260, reading_type |-> "after_meal"]}

BPLogs == {[systolic |-> 150, diastolic |-> 95]}

FoodLogs == {[calories |-> 250, meal_type |-> "lunch"]}

ActivityLogs == {[duration_minutes |-> 30, activity_type |-> "walking"]}

\* The meal sent for analysis; the estimator gives it whole calories
FoodAnalysisRequests ==
    {\* "Rice and dal"
     [food_description |-> <<"R", "i", "c", "e", " ", "a", "n", "d", " ",
                             "d", "a", "l">>,
      quantity |-> <<"1", " ", "s", "e", "r", "v", "i", "n", "g">>]}

StravaPayloads == {[moving_time |-> 1800]}

\* A float of an analysis as the number the store holds: the tables of the
\* model hold whole numbers as integers
Whole(x) == IF x.num % x.den = 0 THEN x.num \div x.den ELSE x

\* The handler answers status 200 with body
Answer(req, body) ==
    /\ pc = "idle"
    /\ request' = req
    /\ response' = [status |-> 200, body |-> body]
    /\ pc' = pc

\* An exception leaves the handler: FastAPI answers 500
ServerError(req, exception) ==
    /\ pc = "idle"
    /\ request' = req
    /\ response' = [status |-> 500, detail |-> "Internal Server Error",
                    exception |-> exception]
    /\ pc' = pc

\* POST /logs/glucose
log_glucose ==
    \E log \in GlucoseLogs :
        /\ RoomInStore
        /\ daily_logs' = save_daily_log("glucose", log.value, "NULL")
        /\ Answer([fn |-> "log_glucose", log |-> log], [id |-> Len(daily_logs')])
        /\ UNCHANGED <<today, medications, medication_logs,
                       strava_activities, hba1c_logs>>

\* POST /logs/bp
log_blood_pressure ==
    \E log \in BPLogs :
        /\ RoomInStore
        /\ daily_logs' = save_daily_log("bp", log.systolic, log.diastolic)
        /\ Answer([fn |-> "log_blood_pressure", log |-> log],
                  [id |-> Len(daily_logs')])
        /\ UNCHANGED <<today, medications, medication_logs,
                       strava_activities, hba1c_logs>>

\* POST /logs/food
log_food ==
    \E log \in FoodLogs :
        /\ RoomInStore
        /\ daily_logs' = save_daily_log("food", log.calories, "NULL")
        /\ Answer([fn |-> "log_food", log |-> log], [id |-> Len(daily_logs')])
        /\ UNCHANGED <<today, medications, medication_logs,
                       strava_activities, hba1c_logs>>

\* POST /logs/activity
log_activity ==
    \E log \in ActivityLogs :
        /\ RoomInStore
        /\ daily_logs' = save_daily_log("activity", log.duration_minutes, "NULL")
        /\ Answer([fn |-> "log_activity", log |-> log], [id |-> Len(daily_logs')])
        /\ UNCHANGED <<today, medications, medication_logs,
                       strava_activities, hba1c_logs>>

\* The part of both food analysis handlers after the analysis: the calories
\* are read from the analysis, the meal is saved as a food log and the
\* analysis is answered together with the id of the log.
SaveAndAnswerAnalysis(req, analysis) ==
    IF "raised" \in DOMAIN analysis
    THEN ServerError(req, analysis.raised) /\ UNCHANGED daily_logs
    ELSE IF "nutrition" \notin DOMAIN analysis
    THEN ServerError(req, "KeyError") /\ UNCHANGED daily_logs
    ELSE IF ~IsDict(analysis.nutrition)
    THEN ServerError(req, "TypeError") /\ UNCHANGED daily_logs
    ELSE IF "calories" \notin DOMAIN analysis.nutrition
    THEN ServerError(req, "KeyError") /\ UNCHANGED daily_logs
    ELSE /\ daily_logs' = save_daily_log("food", Whole(analysis.nutrition.calories),
                                         "NULL")
         /\ Answer(req, analysis @@ [log_id |-> Len(daily_logs')])

\* POST /food/analyze
analyze_food_endpoint ==
    \E food \in FoodAnalysisRequests, gemini \in GeminiOutcomes :
        /\ RoomInStore
        /\ SaveAndAnswerAnalysis(
                [fn |-> "analyze_food", food_description |-> food.food_description,
                 quantity |-> food.quantity, gemini |-> gemini],
                analyze_food_ai(food.food_description, food.quantity, gemini))
        /\ UNCHANGED <<today, medications, medication_logs,
                       strava_activities, hba1c_logs>>

\* POST /food/analyze-hypertension
analyze_food_hypertension ==
    \E food \in FoodAnalysisRequests, gemini \in GeminiOutcomes :
        /\ RoomInStore
        /\ SaveAndAnswerAnalysis(
                [fn |-> "analyze_food_hypertension",
                 food_description |-> food.food_description,
                 quantity |-> food.quantity, gemini |-> gemini],
                analyze_food_hypertension_ai(food.food_description, food.quantity,
                                             gemini))
        /\ UNCHANGED <<today, medications, medication_logs,
                       strava_activities, hba1c_logs>>

\* POST /medications: the new row gets the next id and is active
create_medication ==
    \E m \in MedIds :
        /\ medications[m] = "absent"
        /\ \A k \in MedIds : k < m => medications[k] # "absent"
        /\ medications' = [medications EXCEPT ![m] = "active"]
        /\ Answer([fn |-> "create_medication"], [id |-> m])
        /\ UNCHANGED <<today, daily_logs, medication_logs, strava_activities, hba1c_logs>>

\* POST /medications/log
log_medication_intake_endpoint ==
    \E medication_id \in MedIds, taken \in BOOLEAN :
        /\ RoomInStore
        /\ medication_logs' = log_medication_intake(medication_id, taken)
        /\ Answer([fn |-> "log_medication_intake", medication_id |-> medication_id,
                   taken |-> taken],
                  [id |-> Len(medication_logs'),
                   message |-> IF taken THEN "Medication intake logged"
                               ELSE "Medication skipped"])
        /\ UNCHANGED <<today, daily_logs, medications, strava_activities, hba1c_logs>>

\* DELETE /medications/{medication_id}: the HTTPException(404) of the
\* not-found branch is raised inside the try block, whose except Exception
\* turns it into a 500
delete_medication ==
    \E medication_id \in MedIds :
        LET req == [fn |-> "delete_medication", medication_id |-> medication_id]
        IN  /\ IF medications[medication_id] # "absent"
               \* the UPDATE matches the row, active or not
               THEN /\ medications' = [medications EXCEPT ![medication_id] = "inactive"]
                    /\ Answer(req, [message |-> "Medication deleted successfully"])
               ELSE /\ UNCHANGED medications
                    /\ pc = "idle"
                    /\ request' = req
                    /\ response' = [status |-> 500,
                                    detail |-> "404: Medication not found",
                                    exception |-> "HTTPException"]
                    /\ pc' = pc
            /\ UNCHANGED <<today, daily_logs, medication_logs,
                           strava_activities, hba1c_logs>>

\* POST /strava/sync: the activities Strava reports are saved
strava_sync ==
    \E activity \in StravaPayloads :
        /\ RoomInStore
        /\ strava_activities' =
                Append(strava_activities,
                       [moving_time |-> activity.moving_time, start_date |-> today])
        /\ Answer([fn |-> "strava_sync"], [success |-> TRUE, synced_count |-> 1])
        /\ UNCHANGED <<today, daily_logs, medications, medication_logs, hba1c_logs>>

\* GET /weekly-summary
get_weekly_summary ==
    \E ai_summary \in AiWeeklyInsights :
        /\ Answer([fn |-> "get_weekly_summary"], generate_weekly_summary(ai_summary))
        /\ UNCHANGED store

\* database.get_user_diseases(user_id): what the profile of the user may hold
Diseases == SUBSET {"diabetes", "hypertension"}

\* A plausible slip in the handler of GET /trends/glucose: the report is kept
\* as a row of the log table
get_glucose_trends_saving ==
    /\ Answer([fn |-> "get_glucose_trends"], analyze_glucose_trends)
    /\ daily_logs' = Append(daily_logs,
                            [log_type |-> "glucose_trend", value |-> 0,
                             value_secondary |-> "NULL", log_date |-> today])
    /\ UNCHANGED <<today, medications, medication_logs, strava_activities,
                   hba1c_logs>>

\* GET /trends/glucose
get_glucose_trends ==
    /\ Answer([fn |-> "get_glucose_trends"], analyze_glucose_trends)
    /\ UNCHANGED store

\* GET /trends/bp
get_bp_trends ==
    /\ Answer([fn |-> "get_bp_trends"], analyze_bp_trends)
    /\ UNCHANGED store

\* GET /weekly-adjustments
get_weekly_adjustments ==
    \E diseases \in Diseases :
        /\ Answer([fn |-> "get_weekly_adjustments", diseases |-> diseases],
                  generate_weekly_adjustments(diseases))
        /\ UNCHANGED store

\* get_full_trend_report(user_id, diseases); generated_at is the date of now
get_full_trend_report(diseases) ==
    LET activity_logs == get_daily_logs("activity", 7)
        total_activity_minutes == sum(Column(activity_logs, "value"))
    IN  [generated_at |-> today,
         period |-> "7 days",
         trends |->
            IF diseases = {"diabetes", "hypertension"}
            THEN [glucose |-> analyze_glucose_trends,
                  blood_pressure |-> analyze_bp_trends]
            ELSE IF diseases = {"diabetes"} THEN [glucose |-> analyze_glucose_trends]
            ELSE IF diseases = {"hypertension"}
            THEN [blood_pressure |-> analyze_bp_trends]
            ELSE <<>>,
         weekly_adjustments |-> generate_weekly_adjustments(diseases),
         activity_summary |-> [total_minutes |-> total_activity_minutes,
                               target_minutes |-> 150,
                               on_track |-> total_activity_minutes >= 150]]

\* GET /trends
get_trends ==
    \E diseases \in Diseases :
        /\ Answer([fn |-> "get_trends", diseases |-> diseases],
                  get_full_trend_report(diseases))
        /\ UNCHANGED store

\* The HbA1c values of the model, in hundredths of a percent around every
\* breakpoint of the feedback
HbA1cValues ==
    {Frac(-100, 100), Frac(0, 100), Frac(569, 100), Frac(570, 100), Frac(571, 100),
     Frac(649, 100), Frac(650, 100), Frac(699, 100), Frac(700, 100), Frac(799, 100),
     Frac(800, 100), Frac(801, 100), Frac(1500, 100)}

\* save_hba1c(user_id, value, test_date, lab_name, notes): the table after
\* the INSERT
save_hba1c(value, test_date) ==
    Append(hba1c_logs, [value |-> value, test_date |-> test_date])

\* The feedback of log_hba1c with "<=" for "<" at the breakpoint 6.5
feedback_le(value) ==
    IF FracLT(value, Dec(5, 7))
    THEN "Normal range - Excellent blood sugar control!"
    ELSE IF FracLE(value, Dec(6, 5))
    THEN "Prediabetes range (5.7-6.4%) - Consider lifestyle modifications."
    ELSE IF FracLT(value, Dec(7, 0))
    THEN "Good control for most diabetics. Target is below 7% (ADA Guidelines)."
    ELSE IF FracLT(value, Dec(8, 0))
    THEN "Above target - Discuss with your doctor about optimizing your care plan."
    ELSE "Above 8% - Please consult your healthcare provider about adjusting treatment."

\* The feedback of log_hba1c on log.value; the texts without their signs
feedback(value) ==
    IF FracLT(value, Dec(5, 7))
    THEN "Normal range - Excellent blood sugar control!"
    ELSE IF FracLT(value, Dec(6, 5))
    THEN "Prediabetes range (5.7-6.4%) - Consider lifestyle modifications."
    ELSE IF FracLT(value, Dec(7, 0))
    THEN "Good control for most diabetics. Target is below 7% (ADA Guidelines)."
    ELSE IF FracLT(value, Dec(8, 0))
    THEN "Above target - Discuss with your doctor about optimizing your care plan."
    ELSE "Above 8% - Please consult your healthcare provider about adjusting treatment."

\* POST /hba1c
log_hba1c ==
    \E value \in HbA1cValues :
        /\ RoomInStore
        /\ hba1c_logs' = save_hba1c(value, today)
        /\ Answer([fn |-> "log_hba1c", log |-> [value |-> value, test_date |-> today]],
                  [id |-> Len(hba1c_logs'),
                   message |-> <<"HbA1c of ", value, "% logged for ", today>>,
                   feedback |-> feedback(value)])
        /\ UNCHANGED <<today, daily_logs, medications, medication_logs,
                       strava_activities>>

\* Midnight: date('now') moves on while no request is served
NextDay ==
    /\ pc = "idle"
    /\ today < MaxDay
    /\ today' = today + 1
    /\ request' = NoRequest
    /\ response' = None
    /\ UNCHANGED <<daily_logs, medications, medication_logs,
                   strava_activities, hba1c_logs, pc>>

Next ==
    \/ log_glucose
    \/ log_blood_pressure
    \/ log_food
    \/ log_activity
    \/ analyze_food_endpoint
    \/ analyze_food_hypertension
    \/ create_medication
    \/ log_medication_intake_endpoint
    \/ delete_medication
    \/ strava_sync
    \/ get_weekly_summary
    \/ get_glucose_trends
    \/ get_bp_trends
    \/ get_weekly_adjustments
    \/ get_trends
    \/ NextDay

Spec == Init /\ [][Next]_vars

\* ------------------------------------------------------------------------
\* SpecTrends: the trend reports over a week of logged readings
\* ------------------------------------------------------------------------

\* Glucose readings of one week in the order they were logged: none, inside
\* and outside the target, 0, averages a little under 80 and a little over
\* 180, rising and falling
GlucoseHistories ==
    {<<>>, <<100>>, <<70>>, <<200>>, <<0>>,
     [i \in 1..29 |-> 80] \o <<79>>,
     [i \in 1..29 |-> 180] \o <<181>>,
     <<100, 120, 140>>, <<100, 110, 125, 140>>, <<150, 200, 260>>,
     <<140, 120, 100>>, <<100, 102, 104>>}

\* Blood pressure readings of one week in the order they were logged
BpHistories ==
    {<<>>, <<<<110, 70>>>>, <<<<125, 75>>>>, <<<<135, 85>>>>, <<<<150, 95>>>>,
     <<<<110, 70>>, <<125, 80>>, <<140, 90>>>>,
     <<<<150, 95>>, <<135, 85>>, <<120, 80>>>>}

\* The table after the readings were logged today through POST /logs/glucose
\* and POST /logs/bp
LoggedReadings(glucose, bp) ==
    [i \in DOMAIN glucose |->
        [log_type |-> "glucose", value |-> glucose[i], value_secondary |-> "NULL",
         log_date |-> today]]
    \o [i \in DOMAIN bp |->
            [log_type |-> "bp", value |-> bp[i][1], value_secondary |-> bp[i][2],
             log_date |-> today]]

InitTrends ==
    /\ today = 0
    /\ \E glucose \in GlucoseHistories, bp \in BpHistories :
            daily_logs = LoggedReadings(glucose, bp)
    /\ medications = [m \in MedIds |-> "absent"]
    /\ medication_logs = <<>>
    /\ strava_activities = <<>>
    /\ hba1c_logs = <<>>
    /\ pc = "idle"
    /\ request = NoRequest
    /\ response = None

NextTrends ==
    \/ get_glucose_trends
    \/ get_bp_trends
    \/ get_weekly_adjustments
    \/ get_weekly_summary

SpecTrends == InitTrends /\ [][NextTrends]_vars

\* ------------------------------------------------------------------------
\* SpecWindow: the trend reports some days after a run of daily readings
\* ------------------------------------------------------------------------

\* The table after a glucose and a blood pressure reading were logged on each
\* of the days 0..last
DailyReadings(last) ==
    [i \in 1..(2 * (last + 1)) |->
        LET day == (i - 1) \div 2
        IN  IF i % 2 = 1
            THEN [log_type |-> "glucose", value |-> 100 + 2 * day,
                  value_secondary |-> "NULL", log_date |-> day]
            ELSE [log_type |-> "bp", value |-> 120 + day, value_secondary |-> 80,
                  log_date |-> day]]

InitWindow ==
    /\ today \in 0..MaxWindowDay
    /\ \E last \in 0..today : daily_logs = DailyReadings(last)
    /\ medications = [m \in MedIds |-> "absent"]
    /\ medication_logs = <<>>
    /\ strava_activities = <<>>
    /\ hba1c_logs = <<>>
    /\ pc = "idle"
    /\ request = NoRequest
    /\ response = None

SpecWindow == InitWindow /\ [][NextTrends]_vars

\* ------------------------------------------------------------------------
\* SpecHbA1c: HbA1c results logged into the empty store
\* ------------------------------------------------------------------------

NextHbA1c == log_hba1c

SpecHbA1c == Init /\ [][NextHbA1c]_vars

\* ------------------------------------------------------------------------
\* ai_analyzer.py: the calls of the generative-AI service. The running call
\* keeps its locals (attempt, last_error) and the waits it slept in request.
\* ------------------------------------------------------------------------

\* str(e) of exceptions of generate_content and, last, of json.loads on an
\* answer that is not JSON
ServiceErrors ==
    {\* "429 RESOURCE_EXHAUSTED"
     <<"4", "2", "9", " ", "R", "E", "S", "O", "U", "R", "C", "E", "_", "E", "X", "H", "A", "U", "S", "T", "E", "D">>,
     \* "Quota exceeded"
     <<"Q", "u", "o", "t", "a", " ", "e", "x", "c", "e", "e", "d", "e", "d">>,
     \* "Rate limit"
     <<"R", "a", "t", "e", " ", "l", "i", "m", "i", "t">>,
     \* "503 UNAVAILABLE"
     <<"5", "0", "3", " ", "U", "N", "A", "V", "A", "I", "L", "A", "B", "L", "E">>,
     \* "Expecting value"
     <<"E", "x", "p", "e", "c", "t", "i", "n", "g", " ", "v", "a", "l", "u", "e">>}

\* The test of the retry loops on the exception
RateLimited(e) ==
    \/ contains(e, <<"4", "2", "9">>)
    \/ contains(lower(e), <<"q", "u", "o", "t", "a">>)
    \/ contains(lower(e), <<"e", "x", "c", "e", "e", "d", "e", "d">>)
    \/ contains(lower(e), <<"r", "a", "t", "e">>)

\* The test after the loop of analyze_prescription_image
QuotaExhausted(e) ==
    \/ contains(e, <<"4", "2", "9">>)
    \/ contains(lower(e), <<"q", "u", "o", "t", "a">>)
    \/ contains(lower(e), <<"e", "x", "c", "e", "e", "d", "e", "d">>)

max_retries == 3

\* _get_fallback_food_analysis(condition); the sample foods and totals of the
\* two constant answers are left out
GetFallbackFoodAnalysis(condition) ==
    IF condition = "diabetes"
    THEN [meal_description |-> "Balanced meal with protein, vegetables, and grains",
          ai_generated |-> FALSE]
    ELSE [meal_description |-> "Heart-healthy meal with low sodium and high potassium",
          ai_generated |-> FALSE]

\* The calls: gemini_client set or not after initialize_gemini, the set-up
\* before the loop passing or raising
ServiceCalls ==
    {[fn |-> "analyze_food_ai", food_description |-> food_description,
      quantity |-> quantity] :
        food_description \in FoodDescriptions, quantity \in Quantities}
    \cup
    {[fn |-> "analyze_food_image", client |-> client, setup_ok |-> setup_ok,
      condition |-> condition, attempt |-> 0, slept |-> <<>>,
      last_error |-> None] :
        client \in BOOLEAN, setup_ok \in BOOLEAN,
        condition \in {"diabetes", "hypertension"}}
    \cup
    {[fn |-> "analyze_prescription_image", client |-> client, setup_ok |-> setup_ok,
      attempt |-> 0, slept |-> <<>>, last_error |-> None] :
        client \in BOOLEAN, setup_ok \in BOOLEAN}

InitService ==
    /\ InitStore
    /\ pc = "call"
    /\ request \in ServiceCalls
    /\ response = [pending |-> TRUE]

\* The except branch of the retry loops: sleep (2 ** attempt) * 2 seconds and
\* continue on a rate-limit signal before the last attempt
Retries(e) == RateLimited(e) /\ request.attempt < max_retries - 1

SleepAndContinue(e) ==
    /\ request' = [request EXCEPT !.last_error = Str(e),
                                  !.slept = Append(@, (2 ^ request.attempt) * 2),
                                  !.attempt = @ + 1]
    /\ UNCHANGED <<pc, response>>

\* A call of analyze_food_ai: analyze_food_with_gemini makes one call of
\* generate_content and returns None on any exception, whatever its text
Call_analyze_food_ai ==
    /\ pc = "call"
    /\ request.fn = "analyze_food_ai"
    /\ pc' = "return"
    /\ UNCHANGED store
    /\ \E gemini \in GeminiOutcomes, e \in ServiceErrors :
            /\ request' = [gemini |-> gemini,
                           last_error |-> IF gemini.kind = "error" THEN Str(e)
                                          ELSE None] @@ request
            /\ response' = analyze_food_ai(request.food_description,
                                           request.quantity, gemini)

\* analyze_food_image(image_data, condition), one pass of its loop a step
analyze_food_image ==
    /\ pc = "call"
    /\ request.fn = "analyze_food_image"
    /\ UNCHANGED store
    /\ \/ /\ ~request.client
          /\ response' = None
          /\ pc' = "return"
          /\ UNCHANGED request
       \/ /\ request.client /\ ~request.setup_ok
          /\ response' = GetFallbackFoodAnalysis(request.condition)
          /\ pc' = "return"
          /\ UNCHANGED request
       \/ /\ request.client /\ request.setup_ok
          /\ response' = [detected_foods |-> <<"service">>, ai_generated |-> TRUE]
          /\ pc' = "return"
          /\ UNCHANGED request
       \/ /\ request.client /\ request.setup_ok
          /\ \E e \in ServiceErrors :
                IF Retries(e) THEN SleepAndContinue(e)
                ELSE /\ request' = [request EXCEPT !.last_error = Str(e)]
                     /\ response' = GetFallbackFoodAnalysis(request.condition)
                     /\ pc' = "return"

\* analyze_prescription_image(image_data), one pass of its loop a step
analyze_prescription_image ==
    /\ pc = "call"
    /\ request.fn = "analyze_prescription_image"
    /\ UNCHANGED store
    /\ \/ /\ ~request.client
          /\ response' = None
          /\ pc' = "return"
          /\ UNCHANGED request
       \/ /\ request.client /\ ~request.setup_ok
          /\ response' = [medications |-> <<>>,
                          error |-> "Failed to process image. Please try again."]
          /\ pc' = "return"
          /\ UNCHANGED request
       \/ /\ request.client /\ request.setup_ok
          /\ response' = [medications |-> <<"service">>]
          /\ pc' = "return"
          /\ UNCHANGED request
       \/ /\ request.client /\ request.setup_ok
          /\ \E e \in ServiceErrors :
                IF Retries(e) THEN SleepAndContinue(e)
                ELSE /\ request' = [request EXCEPT !.last_error = Str(e)]
                     /\ response' =
                            [medications |-> <<>>,
                             error |-> IF QuotaExhausted(e)
                                       THEN "AI quota exhausted. Please try again in a few minutes."
                                       ELSE "Analysis failed. Please try again."]
                     /\ pc' = "return"

NextService == Call_analyze_food_ai \/ analyze_food_image \/ analyze_prescription_image

SpecService == InitService /\ [][NextService]_vars

\* ------------------------------------------------------------------------
\* Claims about the metric classifier
\* ------------------------------------------------------------------------

BpCategories == {"normal", "elevated", "stage1", "stage2", "hypertensive_crisis"}

BpRank(category) ==
    CASE category = "normal" -> 0
      [] category = "elevated" -> 1
      [] category = "stage1" -> 2
      [] category = "stage2" -> 3
      [] category = "hypertensive_crisis" -> 4

\* The condition the specification attaches to each category.
BpHolds(category, s, d) ==
    CASE category = "hypertensive_crisis" -> s >= 180 \/ d >= 120
      [] category = "stage2" -> s >= 140 \/ d >= 90
      [] category = "stage1" -> s >= 130 \/ d >= 80
      [] category = "elevated" -> s >= 120
      [] category = "normal" -> TRUE

\* C1: get_bp_status returns exactly one category, the most severe one whose
\* condition holds; (180, 70) is a hypertensive crisis; and raising either
\* value never yields a less severe category.
C1_BpMostSevereWins ==
    Returned("get_bp_status") =>
        LET s == request.systolic
            d == request.diastolic
            c == response.category
        IN  /\ c \in BpCategories
            /\ BpHolds(c, s, d)
            /\ \A c2 \in BpCategories : BpHolds(c2, s, d) => BpRank(c2) <= BpRank(c)
            /\ (s = 180 /\ d = 70 => c = "hypertensive_crisis")
            /\ \A s2 \in SystolicValues, d2 \in DiastolicValues :
                    s2 >= s /\ d2 >= d =>
                        BpRank(get_bp_status(s2, d2).category) >= BpRank(c)

C1_Witness ==
    /\ Returned("get_bp_status")
    /\ request.systolic = 180
    /\ request.diastolic = 70
    /\ response.category = "hypertensive_crisis"

GlucoseRank(status) ==
    CASE status = "critical_low" -> 0
      [] status = "low" -> 1
      [] status = "normal" -> 2
      [] status \in {"elevated", "high"} -> 3
      [] status = "critical_high" -> 4

FastingCall == Returned("get_glucose_status") /\ request.reading_type = "fasting"

FirstSum(values) == sum(SubSeq(values, 1, Len(values) \div 2))

SecondSum(values) == sum(SubSeq(values, Len(values) \div 2 + 1, Len(values)))

FirstLen(values) == Len(values) \div 2

SecondLen(values) == Len(values) - Len(values) \div 2

\* mean(second half) - mean(first half) > delta, in integers
MeansRiseBy(values, delta) ==
    SecondSum(values) * FirstLen(values) - FirstSum(values) * SecondLen(values)
        > delta * FirstLen(values) * SecondLen(values)

\* mean(second half) - mean(first half) < -delta, in integers
MeansFallBy(values, delta) ==
    SecondSum(values) * FirstLen(values) - FirstSum(values) * SecondLen(values)
        < (-delta) * FirstLen(values) * SecondLen(values)

\* The trend the specification describes: the absolute difference of the means
\* against delta.
AbsoluteTrend(values, delta, up, down) ==
    IF MeansRiseBy(values, delta) THEN up
    ELSE IF MeansFallBy(values, delta) THEN down
    ELSE "stable"

\* 100 * (mean(second) - mean(first)) / mean(first) > percent, for mean(first) > 0
MeansRiseByPercent(values, percent) ==
    /\ FirstSum(values) > 0
    /\ 100 * (SecondSum(values) * FirstLen(values) - FirstSum(values) * SecondLen(values))
            > percent * FirstSum(values) * SecondLen(values)

MeansFallByPercent(values, percent) ==
    /\ FirstSum(values) > 0
    /\ 100 * (SecondSum(values) * FirstLen(values) - FirstSum(values) * SecondLen(values))
            < (-percent) * FirstSum(values) * SecondLen(values)

TrendValuesOf(req) ==
    IF req.fn = "analyze_bp_week" THEN Column(req.bp_logs, "value") ELSE req.values

\* C3 as stated: on three or more values every trend computation returns
\* increasing when the second-half mean exceeds the first-half mean by more
\* than the absolute delta (10 glucose, 5 blood pressure), decreasing when it
\* is lower by more than the delta, stable otherwise.
C3_AbsoluteDeltaTrend ==
    /\ Returned("calculate_trend_direction") /\ Len(request.values) >= 3 =>
            response.trend \in {AbsoluteTrend(request.values, 10, "increasing", "decreasing"),
                                AbsoluteTrend(request.values, 5, "increasing", "decreasing")}
    /\ Returned("analyze_glucose_week") /\ Len(request.values) >= 3 =>
            response.trend = AbsoluteTrend(request.values, 10, "increasing", "decreasing")
    /\ Returned("analyze_bp_week") /\ Len(request.bp_logs) >= 3 =>
            response.trend = AbsoluteTrend(TrendValuesOf(request), 5,
                                           "increasing", "decreasing")

\* C3 as amended: on three or more values calculate_trend_direction decides on
\* the relative difference of the means: increasing when the first-half mean is
\* positive and the second-half mean exceeds it by more than 5 percent,
\* decreasing when it is lower by more than 5 percent, stable otherwise (always
\* stable when the first-half mean is not positive). The weekly analyses decide
\* on the absolute difference (10 glucose, 5 blood pressure) and label a rise
\* worsening and a fall improving.
C3_RelativeAndAbsoluteTrend ==
    /\ Returned("calculate_trend_direction") /\ Len(request.values) >= 3 =>
            response.trend =
                IF MeansRiseByPercent(request.values, 5) THEN "increasing"
                ELSE IF MeansFallByPercent(request.values, 5) THEN "decreasing"
                ELSE "stable"
    /\ Returned("analyze_glucose_week") /\ Len(request.values) >= 3 =>
            response.trend = AbsoluteTrend(request.values, 10, "worsening", "improving")
    /\ Returned("analyze_bp_week") /\ Len(request.bp_logs) >= 3 =>
            response.trend = AbsoluteTrend(TrendValuesOf(request), 5,
                                           "worsening", "improving")

\* A rise of 12 units that is a rise of 4 percent: stable.
C3_Witness ==
    /\ Returned("calculate_trend_direction")
    /\ request.values = <<300, 300, 300, 312, 312, 312>>
    /\ response.trend = "stable"

IsConstant(values) == \A i, j \in 1..Len(values) : values[i] = values[j]

\* C4: calculate_trend_direction returns insufficient_data for fewer than 3
\* values and never for 3 or more; stable for every constant sequence of 3 or
\* more values; increasing for [100,100,100,130,130,130].
C4_InsufficientDataAndExamples ==
    Returned("calculate_trend_direction") =>
        /\ response.trend = "insufficient_data" <=> Len(request.values) < 3
        /\ (Len(request.values) >= 3 /\ IsConstant(request.values)
                => response.trend = "stable")
        /\ (request.values = <<100, 100, 100, 130, 130, 130>>
                => response.trend = "increasing")

C4_Witness ==
    /\ Returned("calculate_trend_direction")
    /\ request.values = <<100, 100, 100, 130, 130, 130>>
    /\ response.trend = "increasing"

\* ------------------------------------------------------------------------
\* Claims about the weekly aggregator
\* ------------------------------------------------------------------------

\* C6: with zero active medications the adherence result has score 100 and
\* percentage 100, whatever the medication logs hold.
C6_NoMedicationsFullAdherence ==
    Returned("calculate_medication_adherence") /\ request.medications = <<>> =>
        response.score = 100 /\ response.percentage = 100

C6_Witness ==
    /\ Returned("calculate_medication_adherence")
    /\ request.medications = <<>>
    /\ \E i, j \in 1..Len(request.med_logs) :
            request.med_logs[i].skipped /\ request.med_logs[j].taken_at # "NULL"
    /\ response.score = 100
    /\ response.percentage = 100

\* The rating and score the specification gives a total of exercise minutes:
\* the tiers of min(100, total/150*100) at 100, 75 and 50 percent.
ExerciseRatingOf(total) ==
    IF 100 * total >= 100 * 150 THEN <<"Excellent", 100>>
    ELSE IF 100 * total >= 75 * 150 THEN <<"Good", 80>>
    ELSE IF 100 * total >= 50 * 150 THEN <<"Fair", 60>>
    ELSE <<"Needs Improvement", 40>>

\* 150 * min(100, total/150*100)
ExercisePercentTimes150(total) == IF total >= 150 THEN 100 * 150 ELSE 100 * total

\* p is the integer nearest to n/d, d > 0
IsNearest(p, n, d) == 2 * (p * d - n) <= d /\ 2 * (n - p * d) <= d

DietRatingOf(n) ==
    IF n = 0 THEN <<"No data", 0>>
    ELSE IF n >= 21 \/ 100 * n >= 70 * 21 THEN <<"Excellent", 90>>
    ELSE IF 100 * n >= 50 * 21 THEN <<"Good", 70>>
    ELSE IF 100 * n >= 30 * 21 THEN <<"Fair", 50>>
    ELSE <<"Needs Improvement", 30>>

\* C9: no food log gives No data/0; otherwise the diet score is the tier of
\* min(100, n/21*100): >=70 Excellent/90, >=50 Good/70, >=30 Fair/50, else
\* Needs Improvement/30; and the score never decreases when n increases.
C9_DietTiers ==
    Returned("calculate_diet_quality") =>
        LET n == Len(request.food_logs)
        IN  /\ <<response.rating, response.score>> = DietRatingOf(n)
            /\ \A m \in n..MaxMeals :
                    calculate_diet_quality([i \in 1..m |-> [value |-> 0]]).score
                        >= response.score

\* More than 21 meals: the consistency is clamped to 100.
C9_Witness ==
    /\ Returned("calculate_diet_quality")
    /\ Len(request.food_logs) = 22
    /\ response.rating = "Excellent"
    /\ response.score = 90

\* C10 as stated: every percentage the weekly aggregator reports lies in
\* [0, 100], for every set of logs, negative and zero values included.
C10_PercentagesInRange ==
    /\ Returned("calculate_exercise_consistency_with_strava") =>
            response.percentage_of_goal \in 0..100
    /\ Returned("calculate_medication_adherence") => response.percentage \in 0..100
    /\ Returned("analyze_glucose_week") => response.in_range_percentage \in 0..100
    /\ Returned("analyze_bp_week") /\ request.bp_logs # <<>> =>
            response.in_range_percentage \in 0..100

\* ------------------------------------------------------------------------
\* Claims about the food analysis requests and the weekly summary
\* ------------------------------------------------------------------------

\* The service failed, or what it answered cannot be used: text that is no
\* JSON, JSON of the wrong shape, or JSON without the nutrition fields.
Unusable(gemini) ==
    \/ gemini.kind # "text"
    \/ ~IsDict(gemini.json)
    \/ "nutrition" \notin DOMAIN gemini.json
    \/ ~IsDict(gemini.json.nutrition)
    \/ "calories" \notin DOMAIN gemini.json.nutrition

\* C5 as stated: whenever the call of the generative-AI service for a food
\* analysis fails, times out or returns a response that cannot be used, the
\* request is answered with the result of the deterministic estimator; no
\* outcome of the service makes the request end in an error.
C5_FallbackNeverAnError ==
    /\ request.fn \in {"analyze_food", "analyze_food_hypertension"} =>
            response.status = 200
    /\ request.fn = "analyze_food" /\ Unusable(request.gemini) =>
            response.body =
                analyze_food(request.food_description, request.quantity)
                    @@ [log_id |-> Len(daily_logs)]
    /\ request.fn = "analyze_food_hypertension" /\ Unusable(request.gemini) =>
            response.body =
                analyze_food_hypertension_static(request.food_description,
                                                 request.quantity)
                    @@ [log_id |-> Len(daily_logs)]

\* The taken doses logged over the trailing 7 days
TakenThisWeek ==
    CountIf(medication_logs,
            LAMBDA ml : /\ ml.taken_at # "NULL"
                        /\ medications[ml.medication_id] # "absent"
                        /\ ml.log_date >= today - 7)

\* C7 as stated: in the weekly summary of a user with k > 0 active
\* medications the adherence percentage is min(100, taken/(7k)*100), rounded,
\* with taken the number of taken doses logged over the trailing 7 days, and
\* the rating and the score are the tier of that percentage: >=90
\* Excellent/95, >=75 Good/75, >=50 Fair/50, else Needs Improvement/30.
C7_WeeklyMedicationAdherence ==
    request.fn = "get_weekly_summary" /\ Len(get_medications) > 0 =>
        LET k == Len(get_medications)
            adherence == response.body.summary.medication_adherence
            percentage == FracMin(FracOfInt(100), Frac(TakenThisWeek * 100, 7 * k))
        IN  /\ adherence.percentage = Round0(percentage)
            /\ <<adherence.rating, adherence.score>> =
                    IF FracGE(percentage, FracOfInt(90)) THEN <<"Excellent", 95>>
                    ELSE IF FracGE(percentage, FracOfInt(75)) THEN <<"Good", 75>>
                    ELSE IF FracGE(percentage, FracOfInt(50)) THEN <<"Fair", 50>>
                    ELSE <<"Needs Improvement", 30>>

\* The per-serving values of the matched foods, each times the multiplier,
\* added up
ServingsTotal(matched_foods, key, multiplier) ==
    Frac(sum([i \in DOMAIN matched_foods |->
                FoodData(matched_foods[i])[key].num * multiplier.num]),
         10 * multiplier.den)

\* The arithmetic mean of the glycemic indexes of the matched foods
MeanGi(matched_foods) ==
    Frac(sum([i \in DOMAIN matched_foods |-> FoodData(matched_foods[i]).gi.num]),
         10 * Len(matched_foods))

\* C11 as stated: when a description matches several foods of the table,
\* analyze_food reports calories, carbohydrates, sugar, fiber and protein as
\* the sum over the matched foods of per-serving value times multiplier (to
\* one decimal), and reports as glycemic index the arithmetic mean of the
\* glycemic indexes of the matched foods (to the nearest whole number).
C11_SumAndMeanOfMatches ==
    Returned("analyze_food") /\ Len(response.matched_foods) > 1 =>
        LET foods == response.matched_foods
            multiplier == QuantityMultiplier(request.quantity)
            mean == MeanGi(foods)
            reported == response.nutrition.glycemic_index
        IN  /\ response.nutrition.calories
                    = Round1(ServingsTotal(foods, "calories", multiplier))
            /\ response.nutrition.carbohydrates_g
                    = Round1(ServingsTotal(foods, "carbs", multiplier))
            /\ response.nutrition.sugar_g
                    = Round1(ServingsTotal(foods, "sugar", multiplier))
            /\ response.nutrition.fiber_g
                    = Round1(ServingsTotal(foods, "fiber", multiplier))
            /\ response.nutrition.protein_g
                    = Round1(ServingsTotal(foods, "protein", multiplier))
            /\ 2 * (reported * mean.den - mean.num) <= mean.den
            /\ 2 * (mean.num - reported * mean.den) <= mean.den

\* The food a description of two words, a count of 2 and a food, names; idly
\* is the idli of the table
CountedFoodName(food_description) ==
    LET words == split(lower(food_description))
    IN  IF words[2] = <<"i", "d", "l", "y">> THEN <<"i", "d", "l", "i">>
        ELSE words[2]

\* The description is the count 2 before a known food
CountsTwo(food_description) ==
    LET words == split(lower(food_description))
    IN  /\ Len(words) = 2
        /\ words[1] = <<"2">>
        /\ InFoodDatabase(CountedFoodName(food_description))

\* C12 as stated: a description that names the count 2 before a known food,
\* analysed with the quantity "1 serving", is estimated as 2 times the
\* per-serving macros of the food, and the glycemic index is the one of the
\* food; "2 idly" totals 2 x {39, 8, 0.2, 0.4, 1.3} with glycemic index 77.
C12_CountInDescription ==
    /\ Returned("analyze_food")
    /\ CountsTwo(request.food_description)
    /\ QuantityMultiplier(request.quantity) = Frac(1, 1)
    => LET food_data == FoodData(CountedFoodName(request.food_description))
           twice(x) == Round1(FracMul(Frac(2, 1), x))
       IN  /\ response.nutrition.calories = twice(food_data.calories)
           /\ response.nutrition.carbohydrates_g = twice(food_data.carbs)
           /\ response.nutrition.sugar_g = twice(food_data.sugar)
           /\ response.nutrition.fiber_g = twice(food_data.fiber)
           /\ response.nutrition.protein_g = twice(food_data.protein)
           /\ response.nutrition.glycemic_index = Round0(food_data.gi)

\* The rules of the quantity multiplier, in their order: the texts of a rule
\* and its value
MultiplierRules ==
    << [texts |-> {<<"2">>, <<"t", "w", "o">>, <<"d", "o", "u", "b", "l", "e">>}, value |-> Frac(2, 1)],
       [texts |-> {<<"h", "a", "l", "f">>, <<"0", ".", "5">>}, value |-> Frac(1, 2)],
       [texts |-> {<<"3">>, <<"t", "h", "r", "e", "e">>}, value |-> Frac(3, 1)],
       [texts |-> {<<"l", "a", "r", "g", "e">>}, value |-> Frac(3, 2)],
       [texts |-> {<<"s", "m", "a", "l", "l">>}, value |-> Frac(7, 10)] >>

\* The rules the lower-cased quantity text matches
MatchingRules(quantity) ==
    {k \in DOMAIN MultiplierRules :
        \E text \in MultiplierRules[k].texts : contains(lower(quantity), text)}

\* The value of the earliest matching rule, 1.0 when no rule matches
EarliestRuleValue(quantity) ==
    IF MatchingRules(quantity) = {} THEN Frac(1, 1)
    ELSE MultiplierRules[CHOOSE k \in MatchingRules(quantity) :
                            \A j \in MatchingRules(quantity) : k <= j].value

\* The calories of one serving of every matched food (200 for an unknown food)
ServingCalories(matched_foods) ==
    IF \A i \in DOMAIN matched_foods : InFoodDatabase(matched_foods[i])
    THEN ServingsTotal(matched_foods, "calories", Frac(1, 1))
    ELSE Frac(200, 1)

\* C13: the multiplier analyze_food applies is the value of the first rule,
\* in the order 2/two/double -> 2.0, half/0.5 -> 0.5, 3/three -> 3.0,
\* large -> 1.5, small -> 0.7, that the lower-cased quantity text matches, and
\* 1.0 when none matches; a text matching several rules takes the earliest.
C13_FirstMatchingRule ==
    Returned("analyze_food") =>
        response.nutrition.calories
            = Round1(FracMul(ServingCalories(response.matched_foods),
                             EarliestRuleValue(request.quantity)))

\* A call has returned whose quantity text matches several rules
C13_Witness ==
    /\ Returned("analyze_food")
    /\ Cardinality(MatchingRules(request.quantity)) >= 2
    /\ response.nutrition.calories
            # Round1(ServingCalories(response.matched_foods))

\* The glucose readings of the last 7 days and their average
WeekGlucose == Column(get_daily_logs("glucose", 7), "value")

WeekGlucoseAverage == Frac(sum(WeekGlucose), Len(WeekGlucose))

\* The actions the diabetes rule of the adjustment generator appends
DiabetesRule ==
    IF WeekGlucose = <<>> THEN <<>>
    ELSE IF FracGT(WeekGlucoseAverage, FracOfInt(180))
    THEN <<"Add an extra vegetable serving to lunch and dinner",
           "Increase walking duration by 10 minutes">>
    ELSE IF FracLT(WeekGlucoseAverage, FracOfInt(80))
    THEN <<"Add a small snack between meals">>
    ELSE <<>>

\* The actions the hypertension rule of the adjustment generator appends
HypertensionRule ==
    LET bp_logs == get_daily_logs("bp", 7)
        avg_systolic == Frac(sum(Column(bp_logs, "value")), Len(bp_logs))
        avg_diastolic == Frac(sum(Column(bp_logs, "value_secondary")), Len(bp_logs))
    IN  IF bp_logs = <<>> THEN <<>>
        ELSE IF categorize_bp(avg_systolic, avg_diastolic) \in {"stage1", "stage2"}
        THEN <<"Reduce sodium to less than 1,500mg daily",
               "Add 10-minute evening relaxation session">>
        ELSE <<>>

\* C14 as stated: for a user with diabetes whose 7-day glucose average is
\* above 180 the generator appends the diet and the activity adjustment, and
\* whose average is below 80 the snack adjustment; for a user with
\* hypertension whose BP category is stage1 or stage2 it appends the sodium
\* and the relaxation adjustment; either rule fires whether or not the other
\* did; adjustment_count is the number of adjustments and the message "No
\* adjustments needed" is returned exactly when there is none.
C14_AdditiveAdjustments ==
    request.fn = "get_weekly_adjustments" =>
        LET body == response.body
            expected ==
                (IF "diabetes" \in request.diseases THEN DiabetesRule ELSE <<>>)
                \o (IF "hypertension" \in request.diseases THEN HypertensionRule
                    ELSE <<>>)
        IN  /\ Column(body.adjustments, "action") = expected
            /\ body.adjustment_count = Len(body.adjustments)
            /\ body.message = "No adjustments needed - keep up the good work!"
                    <=> body.adjustments = <<>>

\* The band of a glucose reading the threshold check answers with
ThresholdBand(alert) ==
    IF alert = None THEN "normal"
    ELSE CASE alert.text = "CRITICAL: Severe hypoglycemia! Consume fast-acting glucose immediately and contact your healthcare provider."
                -> "critical_low"
           [] alert.text = "Low blood sugar detected. Consider having a small snack."
                -> "low"
           [] alert.text = "Elevated blood sugar. Monitor closely and follow your care plan."
                -> "elevated"
           [] alert.text = "CRITICAL: Very high blood sugar! Consider contacting your healthcare provider."
                -> "critical_high"

\* C15 as stated: check_glucose_threshold places every value v in the band
\* v < 54 critical-low, 54 <= v <= 69 low, 70 <= v <= 179 no alert,
\* 180 <= v < 250 elevated, v >= 250 critical-high; 54 is low and 70 has no
\* alert.
C15_GlucoseThresholdBands ==
    Returned("check_glucose_threshold") =>
        LET v == request.value
        IN  ThresholdBand(response)
                = IF v < 54 THEN "critical_low"
                  ELSE IF v <= 69 THEN "low"
                  ELSE IF v <= 179 THEN "normal"
                  ELSE IF v < 250 THEN "elevated"
                  ELSE "critical_high"

\* C16 as stated: for a reading whose context is neither fasting nor
\* after_meal (random, which GlucoseLog accepts), get_glucose_status returns
\* for every value a status low, normal or high with a severity, never the
\* status unknown.
C16_GenericContextClassified ==
    /\ Returned("get_glucose_status")
    /\ request.reading_type \notin {"fasting", "after_meal"}
    => /\ response.status \in {"low", "normal", "high"}
       /\ "severity" \in DOMAIN response

\* The band of an HbA1c feedback text
FeedbackBand(text) ==
    CASE text = "Normal range - Excellent blood sugar control!" -> "normal"
      [] text = "Prediabetes range (5.7-6.4%) - Consider lifestyle modifications."
            -> "prediabetes"
      [] text = "Good control for most diabetics. Target is below 7% (ADA Guidelines)."
            -> "good_control"
      [] text = "Above target - Discuss with your doctor about optimizing your care plan."
            -> "above_target"
      [] text = "Above 8% - Please consult your healthcare provider about adjusting treatment."
            -> "high"

\* The bands of the HbA1c feedback in hundredths: from lo up to, not
\* including, hi
HbA1cBands ==
    {[band |-> "normal", lo |-> -100000, hi |-> 570],
     [band |-> "prediabetes", lo |-> 570, hi |-> 650],
     [band |-> "good_control", lo |-> 650, hi |-> 700],
     [band |-> "above_target", lo |-> 700, hi |-> 800],
     [band |-> "high", lo |-> 800, hi |-> 100000]}

\* The bands the value x lies in
BandsOf(x) ==
    {b \in HbA1cBands : /\ FracLE(Frac(b.lo, 100), x)
                        /\ FracLT(x, Frac(b.hi, 100))}

\* C17: the feedback of logging the HbA1c value x is the one of the band of
\* x, with x < 5.7 normal, 5.7 <= x < 6.5 prediabetes, 6.5 <= x < 7.0 good
\* control, 7.0 <= x < 8.0 above target and x >= 8.0 high; x lies in exactly
\* one band, a breakpoint in the upper one.
C17_HbA1cBands ==
    request.fn = "log_hba1c" =>
        /\ Cardinality(BandsOf(request.log.value)) = 1
        /\ \A b \in BandsOf(request.log.value) :
                FeedbackBand(response.body.feedback) = b.band

\* A result on the breakpoint 6.5 was logged and answered as good control
C17_Witness ==
    /\ request.fn = "log_hba1c"
    /\ request.log.value = Frac(650, 100)
    /\ FeedbackBand(response.body.feedback) = "good_control"
    /\ hba1c_logs # <<>>

\* The percentage in_range of total makes, as the weekly analysis reports it
InRangePercentage(in_range, total) ==
    Round0(FracMul(Frac(in_range, total), FracOfInt(100)))

\* C18 as stated: analyze_bp_week counts a reading in range if and only if
\* get_bp_status classifies the reading as normal, analyze_glucose_week counts
\* a reading if and only if it lies in the target band 80..180, and no count
\* exceeds the number of readings.
C18_InRangeIsClassifierNormal ==
    /\ Returned("analyze_bp_week") /\ request.bp_logs # <<>> =>
            LET bp_logs == request.bp_logs
                normal == {i \in DOMAIN bp_logs :
                            get_bp_status(bp_logs[i].value,
                                          bp_logs[i].value_secondary).category
                                = "normal"}
            IN  /\ response.in_range_percentage
                        = InRangePercentage(Cardinality(normal), Len(bp_logs))
                /\ response.in_range_percentage <= 100
    /\ Returned("analyze_glucose_week") /\ request.values # <<>> =>
            LET values == request.values
                in_target == {i \in DOMAIN values : 80 <= values[i] /\ values[i] <= 180}
            IN  /\ response.in_range_percentage
                        = InRangePercentage(Cardinality(in_target), Len(values))
                /\ response.in_range_percentage <= 100

LoggedValues(log_type) ==
    LET IsOfType(log) == log.log_type = log_type
    IN  Column(SelectSeq(daily_logs, IsOfType), "value")

\* At least three readings, each higher than every earlier one by more than
\* 5 percent and by more than 10
RisingReadings(values) ==
    /\ Len(values) >= 3
    /\ values[1] > 0
    /\ \A i, j \in 1..Len(values) :
            i < j => /\ 100 * values[j] > 105 * values[i]
                     /\ values[j] > values[i] + 10

\* C20: after readings logged in rising order, the glucose trend report and
\* the blood-pressure trend report say 'increasing' and the weekly summary
\* the rising direction ('worsening'), although the store returns the logs
\* newest first.
C20_ChronologicalTrend ==
    /\ (request.fn = "get_glucose_trends" /\ RisingReadings(LoggedValues("glucose")))
            => response.body.trend_direction = "increasing"
    /\ (request.fn = "get_bp_trends" /\ RisingReadings(LoggedValues("bp")))
            => response.body.trend_direction = "increasing"
    /\ (request.fn = "get_weekly_summary" /\ RisingReadings(LoggedValues("glucose")))
            => response.body.summary.blood_sugar.trend = "worsening"
    /\ (request.fn = "get_weekly_summary" /\ RisingReadings(LoggedValues("bp")))
            => response.body.summary.blood_pressure.trend = "worsening"

\* ------------------------------------------------------------------------
\* Claims about the split of the trend computations
\* ------------------------------------------------------------------------

\* values[0:floor(n/2)] and values[floor(n/2):n]
FirstHalf(values) == SubSeq(values, 1, Len(values) \div 2)

SecondHalf(values) == SubSeq(values, Len(values) \div 2 + 1, Len(values))

\* The direction of calculate_trend_direction computed on two given halves
RelativeDirection(first, second) ==
    LET a == sum(first) * Len(second)
        b == sum(second) * Len(first)
    IN  IF sum(first) > 0 /\ 100 * (b - a) > 5 * a THEN "increasing"
        ELSE IF sum(first) > 0 /\ 100 * (b - a) < (-5) * a THEN "decreasing"
        ELSE "stable"

\* The direction of the weekly analyses computed on two given halves
AbsoluteDirection(first, second, delta) ==
    LET a == sum(first) * Len(second)
        b == sum(second) * Len(first)
    IN  IF b - a < (-delta) * Len(first) * Len(second) THEN "improving"
        ELSE IF b - a > delta * Len(first) * Len(second) THEN "worsening"
        ELSE "stable"

HalvesPartition(values) ==
    /\ FirstHalf(values) # <<>>
    /\ SecondHalf(values) # <<>>
    /\ FirstHalf(values) \o SecondHalf(values) = values
    /\ (Len(FirstHalf(values)) + 1 = Len(SecondHalf(values))) <=> (Len(values) % 2 = 1)
    /\ (Len(FirstHalf(values)) = Len(SecondHalf(values))) <=> (Len(values) % 2 = 0)

\* C21: on three or more values the three trend computations compare the
\* means of values[0:floor(n/2)] and values[floor(n/2):n]; the two halves are
\* non-empty, partition the sequence, and the first is one element shorter
\* than the second exactly when n is odd.
C21_MidpointSplit ==
    /\ Returned("calculate_trend_direction") /\ Len(request.values) >= 3 =>
            /\ HalvesPartition(request.values)
            /\ response.trend = RelativeDirection(FirstHalf(request.values),
                                                  SecondHalf(request.values))
    /\ Returned("analyze_glucose_week") /\ Len(request.values) >= 3 =>
            /\ HalvesPartition(request.values)
            /\ response.trend = AbsoluteDirection(FirstHalf(request.values),
                                                  SecondHalf(request.values), 10)
    /\ Returned("analyze_bp_week") /\ Len(request.bp_logs) >= 3 =>
            /\ HalvesPartition(TrendValuesOf(request))
            /\ response.trend = AbsoluteDirection(FirstHalf(TrendValuesOf(request)),
                                                  SecondHalf(TrendValuesOf(request)), 5)

\* Five readings whose middle one decides: with the split at index 2 the
\* systolic means are 120 and 133.3
C21_Witness ==
    /\ Returned("analyze_bp_week")
    /\ TrendValuesOf(request) = <<120, 120, 140, 140, 120>>
    /\ response.trend = "worsening"

\* ------------------------------------------------------------------------
\* Claims about the food matcher
\* ------------------------------------------------------------------------

\* The punctuation-stripped tokens of a description as analyze_food reads it
DescriptionTokens(food_description) ==
    LET words == split(strip(lower(food_description), whitespace))
    IN  {strip(words[i], {",", ".", "!", "?"}) : i \in DOMAIN words}

IsSingleWord(food_name) == \A i \in DOMAIN food_name : food_name[i] # " "

\* The per-serving values of the distinct keys among matched_foods, each
\* counted once, times the multiplier
DistinctTotal(matched_foods, key, multiplier) ==
    Frac(sum([k \in DOMAIN FOOD_DATABASE |->
                IF \E i \in DOMAIN matched_foods :
                        matched_foods[i] = FOOD_DATABASE[k].name
                THEN FOOD_DATABASE[k][key].num * multiplier.num
                ELSE 0]),
         10 * multiplier.den)

\* C22 as stated: a single-word key is matched only when it is a whole
\* punctuation-stripped token of the description (substring matching is for
\* multi-word keys only), no key is matched twice, and the totals count every
\* distinct matched key once.
C22_TokenAndMultiWordMatching ==
    Returned("analyze_food") /\ InFoodDatabase(response.matched_foods[1]) =>
        LET foods == response.matched_foods
            multiplier == QuantityMultiplier(request.quantity)
        IN  /\ \A i \in DOMAIN foods :
                    IsSingleWord(foods[i])
                        => foods[i] \in DescriptionTokens(request.food_description)
            /\ \A i, j \in DOMAIN foods : i # j => foods[i] # foods[j]
            /\ response.nutrition.calories
                    = Round1(DistinctTotal(foods, "calories", multiplier))
            /\ response.nutrition.carbohydrates_g
                    = Round1(DistinctTotal(foods, "carbs", multiplier))

\* ------------------------------------------------------------------------
\* Claims about the glucose-spike risk
\* ------------------------------------------------------------------------

\* max(0, carbs - fiber)
NetCarbs(nutrition) ==
    IF FracGE(nutrition.carbs, nutrition.fiber)
    THEN FracSub(nutrition.carbs, nutrition.fiber)
    ELSE FracOfInt(0)

\* The sum of the four independent contributions
SpikeScore(nutrition) ==
    (IF FracGT(nutrition.gi, FracOfInt(70)) THEN 3
     ELSE IF FracGT(nutrition.gi, FracOfInt(55)) THEN 1 ELSE 0)
    + (IF FracGT(NetCarbs(nutrition), FracOfInt(45)) THEN 3
       ELSE IF FracGT(NetCarbs(nutrition), FracOfInt(30)) THEN 2 ELSE 0)
    + (IF FracGT(nutrition.sugar, FracOfInt(15)) THEN 3
       ELSE IF FracGT(nutrition.sugar, FracOfInt(8)) THEN 1 ELSE 0)
    + (IF FracLT(nutrition.fiber, FracOfInt(2)) THEN 1 ELSE 0)

\* C23: the risk score is the sum of the contributions of the glycemic index,
\* the net carbs (carbs minus fiber, at least 0), the sugar and the fiber; it
\* lies between 0 and 10, the reported net carbs are never negative, and the
\* level is high exactly for a score of 6 or more, medium exactly for 3 to 5,
\* low otherwise.
C23_AdditiveSpikeScore ==
    Returned("calculate_glucose_spike_risk") =>
        /\ response.score = SpikeScore(request.nutrition)
        /\ response.score \in 0..10
        /\ FracGE(response.net_carbs, FracOfInt(0))
        /\ FracEQ(response.net_carbs, NetCarbs(request.nutrition))
        /\ response.level = "high" <=> response.score >= 6
        /\ response.level = "medium" <=> response.score \in 3..5
        /\ response.level = "low" <=> response.score < 3

\* A score of exactly 6 with more fiber than carbs: high, net carbs 0
C23_Witness ==
    /\ Returned("calculate_glucose_spike_risk")
    /\ request.nutrition = [carbs |-> Dec(0, 0), sugar |-> Dec(16, 0),
                            fiber |-> Dec(2, 0), gi |-> Dec(71, 0)]
    /\ response.score = 6
    /\ response.level = "high"
    /\ FracEQ(response.net_carbs, FracOfInt(0))

\* ------------------------------------------------------------------------
\* Claims about the sodium estimate
\* ------------------------------------------------------------------------

\* The base estimate with the keyword lists in priority high, medium, low
PrioritySodium(food_description) ==
    LET food_lower == lower(food_description)
    IN  IF AnyKeyword(high_sodium_foods, food_lower) THEN 600
        ELSE IF AnyKeyword(medium_sodium_foods, food_lower) THEN 350
        ELSE IF AnyKeyword(low_sodium_foods, food_lower) THEN 100
        ELSE 200

\* The factor the estimator applies to the base estimate for a quantity text
SodiumFactor(quantity) ==
    LET qty_lower == lower(quantity)
    IN  IF \/ contains(qty_lower, <<"2">>)
           \/ contains(qty_lower, <<"l", "a", "r", "g", "e">>)
        THEN Frac(3, 2)
        ELSE IF \/ contains(qty_lower, <<"s", "m", "a", "l", "l">>)
                \/ contains(qty_lower, <<"h", "a", "l", "f">>)
        THEN Frac(6, 10)
        ELSE Frac(1, 1)

\* C24 as stated: the sodium of the fallback estimator is the base estimate of
\* the first keyword list that matches, high (600) before medium (350) before
\* low (100), 200 when none matches, times the factor of the quantity; the
\* result is DASH-compliant exactly when the sodium is below 400.
C24_SodiumPriority ==
    Returned("analyze_food_hypertension_static") =>
        /\ response.nutrition.sodium_mg
                = int(FracMul(FracOfInt(PrioritySodium(request.food_description)),
                              SodiumFactor(request.quantity)))
        /\ response.dash_compliant <=> response.nutrition.sodium_mg < 400

\* ------------------------------------------------------------------------
\* Claims about the calls of the generative-AI service
\* ------------------------------------------------------------------------

\* The attempts of generate_content the running call has made
AttemptsMade ==
    IF request.fn = "analyze_food_ai"
    THEN IF pc = "return" /\ request.gemini.kind # "no_client" THEN 1 ELSE 0
    ELSE IF pc = "call" THEN request.attempt
    ELSE IF request.client /\ request.setup_ok THEN request.attempt + 1
    ELSE 0

\* The seconds the running call has slept between its attempts
Slept == IF "slept" \in DOMAIN request THEN request.slept ELSE <<>>

\* The last attempt the running call made failed with a rate-limit signal
LastRateLimited ==
    /\ "last_error" \in DOMAIN request
    /\ request.last_error # None
    /\ RateLimited(request.last_error.text)

\* The call has returned the fallback result and not an answer of the service
FellBack ==
    /\ pc = "return"
    /\ response # None
    /\ IF request.fn = "analyze_prescription_image"
       THEN "error" \in DOMAIN response
       ELSE "ai_generated" \notin DOMAIN response \/ ~response.ai_generated

\* C25 as stated: on every path that calls the service, the food analysis
\* with its deterministic fallback and the two image analyses, at most 3
\* attempts are made, the waits are 2 seconds before attempt 2 and 4 seconds
\* before attempt 3, an attempt is repeated only after a rate-limit signal,
\* and after a rate-limit signal the fallback result is returned only when the
\* 3 attempts are used up.
C25_RetryWithBackoff ==
    /\ AttemptsMade <= 3
    /\ Slept = SubSeq(<<2, 4>>, 1, Len(Slept))
    /\ (pc = "call" /\ AttemptsMade > 0) =>
            LastRateLimited /\ Len(Slept) = AttemptsMade
    /\ (FellBack /\ LastRateLimited) =>
            AttemptsMade = 3 /\ Slept = <<2, 4>>

\* ------------------------------------------------------------------------
\* Claims about the trailing window of the log queries
\* ------------------------------------------------------------------------

\* The stored readings of a type dated on one of the days most recent
\* calendar dates up to and including today, newest first
TrailingReadings(log_type, days) ==
    Reverse(SelectSeq(daily_logs,
                      LAMBDA row : /\ row.log_type = log_type
                                   /\ row.log_date > today - days
                                   /\ row.log_date <= today))

LogDates(rows) == {rows[i].log_date : i \in DOMAIN rows}

\* C26 as stated: the query for the trailing N days returns exactly the
\* readings dated on the N most recent calendar dates up to today; for N = 7
\* a reading dated 7 days before today is left out and at most 7 dates
\* contribute; the 7-day statistics count the readings of the 7-day list, and
\* so do the trend reports.
C26_TrailingWindow ==
    \A log_type \in {"glucose", "bp"} :
        /\ \A days \in {1, 7} :
                get_daily_logs(log_type, days) = TrailingReadings(log_type, days)
        /\ today - 7 \notin LogDates(get_daily_logs(log_type, 7))
        /\ Cardinality(LogDates(get_daily_logs(log_type, 7))) <= 7
        /\ get_weekly_stats(log_type).count = Len(get_daily_logs(log_type, 7))
        /\ (request.fn = "get_glucose_trends" /\ response.body.status = "analyzed")
                => response.body.stats.readings_count
                        = Len(TrailingReadings("glucose", 7))

\* ------------------------------------------------------------------------
\* Claims about what the analysis operations leave alone
\* ------------------------------------------------------------------------

\* The requests answered by an analysis operation of the core alone
AnalysisRequests ==
    {"get_glucose_trends", "get_bp_trends", "get_weekly_adjustments",
     "get_trends", "get_weekly_summary"}

\* The step is the answer of an analysis request
AnalysisStep == pc = "idle" /\ request'.fn \in AnalysisRequests

\* Every stored reading is still there, unchanged
ReadingsKept ==
    /\ Len(daily_logs') >= Len(daily_logs)
    /\ \A i \in DOMAIN daily_logs : daily_logs'[i] = daily_logs[i]

\* C27: in every interleaving of the analysis requests with the logging
\* requests, a step of an analysis operation leaves the readings, the
\* medications and the medication logs as they are, and no step at all changes
\* or removes a reading once stored.
C27_AnalysisOnlyReads ==
    [][/\ AnalysisStep => UNCHANGED <<daily_logs, medications, medication_logs>>
       /\ ReadingsKept]_vars

\* The full trend report answered over a store with two readings and a
\* medication
C27_Witness ==
    /\ request.fn = "get_trends"
    /\ request.diseases = {"diabetes", "hypertension"}
    /\ Len(daily_logs) = 2
    /\ \E m \in MedIds : medications[m] # "absent"
    /\ response.body.trends.glucose.status = "analyzed"

\* ------------------------------------------------------------------------
\* Claims about the glycemic index of the estimate
\* ------------------------------------------------------------------------

\* "1 serving"
OneServing == <<"1", " ", "s", "e", "r", "v", "i", "n", "g">>

\* C28 as stated: the glycemic index analyze_food reports lies in [0, 100]
\* and is the one it reports for the same description with the quantity
\* "1 serving", whatever the quantity text.
C28_GlycemicIndexUnscaled ==
    Returned("analyze_food") =>
        /\ response.nutrition.glycemic_index >= 0
        /\ response.nutrition.glycemic_index <= 100
        /\ response.nutrition.glycemic_index
                = analyze_food(request.food_description, OneServing)
                        .nutrition.glycemic_index

\* ------------------------------------------------------------------------
\* Claims about the two blood-pressure classifiers
\* ------------------------------------------------------------------------

\* C29 as stated: below the crisis band (systolic < 180 and diastolic < 120)
\* categorize_bp returns the category get_bp_status returns for the same
\* pair; (145, 70) is stage2 in both.
C29_CategoriesAgree ==
    /\ Returned("categorize_bp")
    /\ request.systolic < 180
    /\ request.diastolic < 120
    => response.category
            = get_bp_status(request.systolic, request.diastolic).category

\* ------------------------------------------------------------------------
\* Claims about the deletion of a medication
\* ------------------------------------------------------------------------

\* The step is the answer of DELETE /medications/{medication_id}
DeleteStep == pc = "idle" /\ request'.fn = "delete_medication"

\* C30 as stated: the delete of an active medication is answered with
\* success and the medication is no longer among the active medications; the
\* delete of a medication that does not exist for the user or was already
\* deleted is answered with 404, never with success and never with 500, and
\* leaves the medications unchanged.
C30_SoftDeleteOrNotFound ==
    [][DeleteStep =>
        IF medications[request'.medication_id] = "active"
        THEN /\ response'.status = 200
             /\ medications'[request'.medication_id] # "active"
             /\ \A i \in DOMAIN get_medications' :
                    get_medications'[i].id # request'.medication_id
        ELSE /\ response'.status = 404
             /\ medications' = medications]_vars

=============================================================================
